---------------------------- MODULE Spec2Model ----------------------------
(***************************************************************************)
(* A model of the nuisance-residualization and final-stage CATE regression *)
(* engine of econml/dml.py: the first-stage wrapper (_FirstStageWrapper),  *)
(* the final-stage wrapper (_FinalWrapper) and the configuration setters   *)
(* of the DML estimator that rebuild them.                                 *)
(*                                                                         *)
(* Arrays are records [nd |-> number of dimensions, v |-> contents]: a     *)
(* vector (nd = 1) holds a sequence of numbers, a matrix (nd = 2) a        *)
(* sequence of rows, and None is the array with nd = 0.  Residuals are     *)
(* integers in units of 5e-6, so that the clipping threshold 1e-5 of the   *)
(* weighting trick is the integer ClipEps; a quotient is an exact fraction *)
(* [num, den] in lowest terms.                                             *)
(***************************************************************************)
EXTENDS Integers, Sequences, FiniteSets, TLC

VARIABLES
    data,   \* the observation block the caller holds (drawn at Init)
    fw,     \* the _FinalWrapper instance
    fsw,    \* the _FirstStageWrapper instance
    est,    \* the DML estimator
    nalloc, \* number of wrappers constructed so far
    ret     \* the last call: its operation, arguments, error and result

vars == <<data, fw, fsw, est, nalloc, ret>>

-----------------------------------------------------------------------------
(* Bounds of the model *)

NSamples == 2   \* rows of every observation block
MaxDt == 2      \* columns of a residual treatment matrix
MaxDy == 2      \* columns of a residual outcome matrix
MaxCats == 2    \* columns of a one-hot treatment block (categories - 1)
MaxAlloc == 9   \* wrappers an estimator may construct along one behaviour
MaxDraws == 8   \* draws followed from one random generator

(* Program constant: the clip threshold 1e-5 of _FinalWrapper.fit, in units *)
(* of 5e-6                                                                   *)
ClipEps == 2

\* the dim and bw a KernelDML is constructed with
KernelDim == 1
KernelBw == 1

\* the depth at which the interpreter stops a recursion
RecursionLimit == 4

-----------------------------------------------------------------------------
(* numpy helpers *)

None == [nd |-> 0, v |-> <<>>]
Vec(s) == [nd |-> 1, v |-> s]
\* a value that is no array: an attribute read back
Scalar(x) == [nd |-> 0, v |-> <<x>>]
Mat(rows) == [nd |-> 2, v |-> rows]

Abs(x) == IF x < 0 THEN -x ELSE x

RECURSIVE GCD(_, _)
GCD(a, b) == IF b = 0 THEN a ELSE GCD(b, a % b)

\* a / b for b # 0, as a fraction in lowest terms with a positive denominator
Rat(a, b) ==
    LET g == GCD(Abs(a), Abs(b))
        s == IF b < 0 THEN -1 ELSE 1
    IN [num |-> (s * a) \div g, den |-> (s * b) \div g]

RECURSIVE SumSeq(_)
SumSeq(s) == IF s = <<>> THEN 0 ELSE Head(s) + SumSeq(Tail(s))

\* np.shape(A)[0]
NRows(A) == Len(A.v)

\* shape(A)[1:] : () for a vector, (d,) for a matrix
ShapeTail(A) == IF A.nd = 1 THEN <<>> ELSE <<Len(A.v[1])>>

\* the rows of A as sequences: a vector is read as a single column
Rows(A) == IF A.nd = 1 THEN [i \in 1..Len(A.v) |-> <<A.v[i]>>] ELSE A.v

\* np.ones((n, 1))
OnesCol(n) == Mat([i \in 1..n |-> <<1>>])

\* np.ones(n)
OnesVec(n) == Vec([i \in 1..n |-> 1])

\* np.zeros_like(A[0:1])
ZerosLikeFirstRow(A) == Mat(<< [j \in 1..Len(A.v[1]) |-> 0] >>)

\* np.count_nonzero(A)
CountNonzero(A) ==
    LET R == Rows(A)
    IN Cardinality({ij \in (1..Len(R)) \X (1..Len(R[1])) : R[ij[1]][ij[2]] # 0})

\* A.ravel() of a vector or of a one-column matrix
Ravel(A) == IF A.nd = 1 THEN A.v ELSE [i \in 1..Len(A.v) |-> A.v[i][1]]

-----------------------------------------------------------------------------
(* econml.utilities, as the specification describes them *)

\* cross_product(A, B): the row-wise outer product of the feature block A and
\* the block B, flattened feature-major: column (f - 1) * q + t is A[f] * B[t]
cross_product(A, B) ==
    LET RA == Rows(A)
        RB == Rows(B)
        p == Len(RA[1])
        q == Len(RB[1])
    IN Mat([i \in 1..Len(RA) |->
              [c \in 1..(p * q) |->
                 RA[i][((c - 1) \div q) + 1] * RB[i][((c - 1) % q) + 1]]])

\* add_intercept(X): X augmented with an intercept column of ones
add_intercept(X) == Mat([i \in 1..Len(X.v) |-> <<1>> \o X.v[i]])

\* hstack([A, B]) of two matrices with the same number of rows
hstack(A, B) == Mat([i \in 1..Len(A.v) |-> A.v[i] \o B.v[i]])

\* inverse_onehot(T): the label of each row of a one-hot block whose baseline
\* column is dropped: 0 for an all-zero row, k for a row set in column k
inverse_onehot(T) ==
    Vec([i \in 1..Len(T.v) |->
           SumSeq([k \in 1..Len(T.v[i]) |-> k * T.v[i][k]])])

\* broadcast_unit_treatments(X, d_t): X repeated once per unit treatment, and
\* the unit treatment of each of the n * d_t rows (row (t - 1) * n + i is
\* sample i under unit treatment t)
broadcast_unit_treatments(X, d) ==
    LET n == Len(X.v)
    IN [X |-> Mat([r \in 1..(n * d) |-> X.v[((r - 1) % n) + 1]]),
        T |-> Mat([r \in 1..(n * d) |->
                     [t \in 1..d |-> IF t = ((r - 1) \div n) + 1 THEN 1 ELSE 0]])]

\* A flattened in row-major order
Flat(A) ==
    IF A.nd = 1 THEN A.v
    ELSE LET w == Len(A.v[1])
         IN [c \in 1..(Len(A.v) * w) |-> A.v[((c - 1) \div w) + 1][((c - 1) % w) + 1]]

\* whether reshape(A, (d_t[0] if d_t else 1, -1) + d_y) is possible
ReshapeOk(A, d_t, d_y) ==
    LET d == IF d_t = <<>> THEN 1 ELSE d_t[1]
        k == IF d_y = <<>> THEN 1 ELSE d_y[1]
    IN d * k > 0 /\ Len(Flat(A)) % (d * k) = 0

\* reshape_treatmentwise_effects(A, d_t, d_y): the stacked predictions (rows =
\* samples x d_t, columns = d_y) as the tensor of shape (n,) + d_y + d_t; entry
\* <<i>> \o [y] \o [t] is the prediction for outcome y of sample i under unit
\* treatment t
reshape_treatmentwise_effects(A, d_t, d_y) ==
    LET d == IF d_t = <<>> THEN 1 ELSE d_t[1]
        k == IF d_y = <<>> THEN 1 ELSE d_y[1]
        flat == Flat(A)
        n == Len(flat) \div (d * k)
        ys == IF d_y = <<>> THEN {<<>>} ELSE {<<y>> : y \in 1..d_y[1]}
        ts == IF d_t = <<>> THEN {<<>>} ELSE {<<t>> : t \in 1..d_t[1]}
        idx == {<<i>> \o y \o t : i \in 1..n, y \in ys, t \in ts}
        tOf(ix) == IF d_t = <<>> THEN 1 ELSE ix[Len(ix)]
        yOf(ix) == IF d_y = <<>> THEN 1 ELSE ix[2]
    IN [shape |-> <<n>> \o d_y \o d_t,
        at |-> [ix \in idx |->
                  flat[((tOf(ix) - 1) * n + (ix[1] - 1)) * k + yOf(ix)]]]

-----------------------------------------------------------------------------
(* The user-supplied collaborators: a featurizer and a regressor.            *)
(* A featurizer is None or a transformer that appends the square of the     *)
(* first column; fitting it records the block it was fitted on.  A          *)
(* regressor is opaque: fitting it records what it was given and a learned  *)
(* baseline (its prediction at an all-zero row), one entry per outcome.     *)

Featurizers == {"None", "Poly"}

\* clone(featurizer, safe=False): an unfitted copy
PlainFeaturizer(kind) == [kind |-> kind, fitted |-> 0, fit_X |-> None]

\* featurizer.fit(X): the state the featurizer keeps of the block
FeaturizerFit(f, X) == [f EXCEPT !.fitted = Len(X.v[1]), !.fit_X = X]

\* featurizer.transform(X) of the Poly featurizer
PolyTransform(X) == Mat([i \in 1..Len(X.v) |-> X.v[i] \o <<X.v[i][1] * X.v[i][1]>>])

\* the k-th number of the pseudo-random stream of a seed
Draw(seed, k) == (seed + 2) * k * k + 3 * k + seed

\* random_state.normal(0, 1 / bw): the draw at offset k of generator g
Normal(g, k) == (Draw(g.seed, g.pos + k) % 5) - 2

\* random_state.uniform(0, 2 * np.pi), in units of pi / 4
Uniform(g, k) == Draw(g.seed, g.pos + k) % 8

\* np.cos of an angle in units of pi / 4, scaled to integers
Cos(a) == <<4, 3, 0, -3, -4, -3, 0, 3>>[(a % 8) + 1]

\* check_random_state(seed): a new generator for an integer seed, the
\* generator itself (at the position it has reached) for a RandomState instance
check_random_state(rs) ==
    IF rs.kind = "int" THEN [seed |-> rs.seed, pos |-> 0]
    ELSE [seed |-> rs.seed, pos |-> rs.pos]

\* _RandomFeatures(dim, bw, random_state)
RandomFeaturesNew(dim, bw, random_state) ==
    [kind |-> "Random", fitted |-> 0, fit_X |-> None, dim |-> dim, bw |-> bw,
     random_state |-> random_state, omegas |-> <<>>, biases |-> <<>>]

\* an integer seed as a random_state
IntSeed(seed) == [kind |-> "int", seed |-> seed, pos |-> 0]

\* clone(featurizer, safe=False): an unfitted copy with the same parameters;
\* "Random" names the random-feature map _RandomFeatures(KernelDim, KernelBw, 0)
CloneFeaturizer(kind) ==
    IF kind = "Random"
    THEN RandomFeaturesNew(KernelDim, KernelBw, IntSeed(0))
    ELSE PlainFeaturizer(kind)

\* the number of draws a fit on X takes
DrawsOfFit(f, X) == Len(X.v[1]) * f.dim + f.dim

\* a fit that keeps the generator it made in place of the seed
RandomFeaturesFit_GeneratorKept(f, X) ==
    LET g == check_random_state(f.random_state)
        d == Len(X.v[1])
    IN [f EXCEPT !.fitted = d,
                 !.omegas = [j \in 1..d |->
                               [k \in 1..f.dim |-> Normal(g, (j - 1) * f.dim + k)]],
                 !.biases = [k \in 1..f.dim |-> Uniform(g, d * f.dim + k)],
                 !.random_state = [kind |-> "instance", seed |-> g.seed,
                                   pos |-> g.pos + DrawsOfFit(f, X)]]

\* _RandomFeatures.fit(X): draws omegas, then biases; a RandomState instance
\* is left advanced by the draws
RandomFeaturesFit(f, X) ==
    LET g == check_random_state(f.random_state)
        d == Len(X.v[1])
    IN [f EXCEPT !.fitted = d,
                 !.omegas = [j \in 1..d |->
                               [k \in 1..f.dim |-> Normal(g, (j - 1) * f.dim + k)]],
                 !.biases = [k \in 1..f.dim |-> Uniform(g, d * f.dim + k)],
                 !.random_state = IF f.random_state.kind = "int"
                                  THEN f.random_state
                                  ELSE [f.random_state EXCEPT
                                           !.pos = g.pos + DrawsOfFit(f, X)]]

\* _RandomFeatures.transform(X): cos(X omegas + biases), up to the scale
\* sqrt(2 / dim)
RandomFeaturesTransform(f, X) ==
    Mat([i \in 1..Len(X.v) |->
           [k \in 1..f.dim |->
              Cos(SumSeq([j \in 1..Len(X.v[i]) |-> X.v[i][j] * f.omegas[j][k]])
                  + f.biases[k])]])

\* a copy that is the supplied object itself
CloneModel_Alias(proto, mid) ==
    [proto |-> proto, id |-> proto.obj, fitted |-> FALSE, X |-> None, y |-> None,
     sample_weight |-> None, sample_var |-> None, base |-> <<>>]

\* clone(model, safe=False): an unfitted copy of the regressor named proto
CloneModel(proto, mid) ==
    [proto |-> proto, id |-> mid, fitted |-> FALSE, X |-> None, y |-> None,
     sample_weight |-> None, sample_var |-> None, base |-> <<>>]

\* model.fit(X, y, sample_weight=..., sample_var=...), learning baseline base
ModelFit(m, X, y, sw, sv, base) ==
    [m EXCEPT !.fitted = TRUE, !.X = X, !.y = y, !.sample_weight = sw,
              !.sample_var = sv, !.base = base]

\* the fitted regressor's prediction for outcome k on design row r
PredictOne(m, r, k) == m.base[k] + SumSeq([j \in 1..Len(r) |-> j * r[j]])

\* model.predict(D): a vector when the model was fit on a vector target
ModelPredict(m, D) ==
    IF m.y.nd = 1
    THEN Vec([i \in 1..Len(D.v) |-> PredictOne(m, D.v[i], 1)])
    ELSE Mat([i \in 1..Len(D.v) |->
                [k \in 1..Len(m.base) |-> PredictOne(m, D.v[i], k)]])

-----------------------------------------------------------------------------
(* _FinalWrapper *)

\* the attributes a wrapper holds before its first fit
NoAttrs == {}

\* a constructor that keeps the requested intercept under the weighting trick
FinalWrapperNew_KeepIntercept(model_final, fit_cate_intercept, featurizer, use_weight_trick, oid) ==
    [id |-> oid,
     model |-> CloneModel(model_final, oid),
     use_weight_trick |-> use_weight_trick,
     original_featurizer |-> CloneFeaturizer(featurizer),
     fit_cate_intercept |-> fit_cate_intercept,
     add_intercept |-> (~use_weight_trick) /\ fit_cate_intercept,
     ctor_fit_cate_intercept |-> fit_cate_intercept,
     attrs |-> {},
     d_t |-> <<>>,
     d_y |-> <<>>,
     intercept |-> None]

\* _FinalWrapper.__init__(model_final, fit_cate_intercept, featurizer,
\* use_weight_trick): the weighting trick switches the intercept off
FinalWrapperNew(model_final, fit_cate_intercept, featurizer, use_weight_trick, oid) ==
    [id |-> oid,
     model |-> CloneModel(model_final, oid),
     use_weight_trick |-> use_weight_trick,
     original_featurizer |-> CloneFeaturizer(featurizer),
     fit_cate_intercept |-> IF use_weight_trick THEN FALSE ELSE fit_cate_intercept,
     add_intercept |-> (~use_weight_trick) /\ fit_cate_intercept,
     ctor_fit_cate_intercept |-> fit_cate_intercept,
     attrs |-> NoAttrs,
     d_t |-> <<>>,
     d_y |-> <<>>,
     intercept |-> None]

\* whether self._featurizer is None
FeaturizerIsNone(w) == w.original_featurizer.kind = "None" /\ ~w.add_intercept

\* self._featurizer.fit_transform(X) / transform(X): the featurizer stage
\* (refit when fitting, else used as fitted) followed by the add_intercept
\* stage
Featurize(w, X, fitting) ==
    LET f == w.original_featurizer
        width == Len(X.v[1])
        bad == f.kind # "None" /\ ~fitting /\ f.fitted # width
        f2 == IF ~fitting THEN f
              ELSE IF f.kind = "Poly" THEN FeaturizerFit(f, X)
              ELSE IF f.kind = "Random" THEN RandomFeaturesFit(f, X)
              ELSE f
        P == IF f.kind = "Poly" THEN PolyTransform(X)
             ELSE IF f.kind = "Random" THEN RandomFeaturesTransform(f2, X)
             ELSE X
    IN IF bad
       THEN [err |-> "FeaturizerError", F |-> None, feat |-> f]
       ELSE [err |-> "", F |-> IF w.add_intercept THEN add_intercept(P) ELSE P,
             feat |-> f2]

\* a _combine that falls back to a ones column whenever X is None
FinalCombine_AlwaysOnes(w, X, T, fitting) ==
    IF X # None
    THEN LET r == IF FeaturizerIsNone(w)
                  THEN [err |-> "", F |-> X, feat |-> w.original_featurizer]
                  ELSE Featurize(w, X, fitting)
         IN IF r.err # ""
            THEN r
            ELSE [err |-> "", F |-> cross_product(r.F, T), feat |-> r.feat]
    ELSE [err |-> "", F |-> cross_product(OnesCol(NRows(T)), T),
          feat |-> w.original_featurizer]

\* a _combine that flattens treatment-major when it is not fitting
FinalCombine_SwappedAtPredict(w, X, T, fitting) ==
    IF X # None
    THEN LET r == IF FeaturizerIsNone(w)
                  THEN [err |-> "", F |-> X, feat |-> w.original_featurizer]
                  ELSE Featurize(w, X, fitting)
         IN IF r.err # ""
            THEN r
            ELSE [err |-> "",
                  F |-> IF fitting THEN cross_product(r.F, T) ELSE cross_product(T, r.F),
                  feat |-> r.feat]
    ELSE IF ~w.fit_cate_intercept
         THEN [err |-> "InfeasibleConfiguration", F |-> None,
               feat |-> w.original_featurizer]
         ELSE [err |-> "",
               F |-> IF fitting THEN cross_product(OnesCol(NRows(T)), T)
                     ELSE cross_product(T, OnesCol(NRows(T))),
               feat |-> w.original_featurizer]

\* _FinalWrapper._combine(X, T, fitting): the design matrix, or the error raised
FinalCombine(w, X, T, fitting) ==
    IF X # None
    THEN LET r == IF FeaturizerIsNone(w)
                  THEN [err |-> "", F |-> X, feat |-> w.original_featurizer]
                  ELSE Featurize(w, X, fitting)
         IN IF r.err # ""
            THEN r
            ELSE [err |-> "", F |-> cross_product(r.F, T), feat |-> r.feat]
    ELSE IF ~w.fit_cate_intercept
         THEN \* "Cannot use this method with X=None" (weighting trick) or
              \* "Cannot have X=None and also not allow for a CATE intercept!"
              [err |-> "InfeasibleConfiguration", F |-> None,
               feat |-> w.original_featurizer]
         ELSE [err |-> "", F |-> cross_product(OnesCol(NRows(T)), T),
               feat |-> w.original_featurizer]

\* np.sign alone: zero stays zero
SignTRes_ZeroKept(t) == IF t < 0 THEN -1 ELSE IF t = 0 THEN 0 ELSE 1

\* sign_T_res, with zero mapped to +1
SignTRes(t) == IF t < 0 THEN -1 ELSE 1

\* np.clip(x, 1e-5, np.inf)
ClipLow(x) == IF x < ClipEps THEN ClipEps ELSE x

\* the clipped magnitude without its sign
ClippedTRes_NoSign(t) == ClipLow(Abs(t))

\* clipped_T_res = sign_T_res * np.clip(np.abs(T_res), 1e-5, np.inf)
ClippedTRes(t) == SignTRes(t) * ClipLow(Abs(t))

\* target = Y_res / clipped_T_res (clipped_T_res a column when Y_res is a matrix)
TrickTarget(Y, tres) ==
    IF Y.nd = 1
    THEN Vec([i \in 1..Len(Y.v) |-> Rat(Y.v[i], ClippedTRes(tres[i]))])
    ELSE Mat([i \in 1..Len(Y.v) |->
                [k \in 1..Len(Y.v[i]) |-> Rat(Y.v[i][k], ClippedTRes(tres[i]))]])

\* target_var = sample_var / clipped_T_res**2 if sample_var is not None else None
TrickTargetVar(sv, tres) ==
    IF sv = None THEN None
    ELSE IF sv.nd = 1
    THEN Vec([i \in 1..Len(sv.v) |->
                Rat(sv.v[i], ClippedTRes(tres[i]) * ClippedTRes(tres[i]))])
    ELSE Mat([i \in 1..Len(sv.v) |->
                [k \in 1..Len(sv.v[i]) |->
                   Rat(sv.v[i][k], ClippedTRes(tres[i]) * ClippedTRes(tres[i]))]])

\* the sample_weight handed to the regressor: sample_weight * T_res.flatten()**2,
\* or T_res.flatten()**2 when no sample weight is given
TrickWeight(sw, tres) ==
    Vec([i \in 1..Len(tres) |->
           (IF sw = None THEN 1 ELSE sw.v[i]) * tres[i] * tres[i]])

\* an intercept that is only ever overwritten, never reset to None
ProbeIntercept_NoReset(w, m, fts) ==
    LET intercept == ModelPredict(m, ZerosLikeFirstRow(fts))
    IN IF CountNonzero(intercept) > 0 THEN intercept ELSE w.intercept

\* the intercept recorded after a standard-mode fit: the prediction at an
\* all-zero design row when it has a non-zero entry, else None
ProbeIntercept(w, m, fts) ==
    LET intercept == ModelPredict(m, ZerosLikeFirstRow(fts))
    IN IF CountNonzero(intercept) > 0 THEN intercept ELSE None

\* the standard-mode branch of fit
FitStandard(w, X, T, Y, sw, sv, base) ==
    LET c == FinalCombine(w, X, T, TRUE)
        m == ModelFit(w.model, c.F, Y, sw, IF sw # None THEN sv ELSE None, base)
    IN IF c.err # ""
       THEN [err |-> c.err, w |-> w]
       ELSE [err |-> "",
             w |-> [w EXCEPT !.original_featurizer = c.feat,
                             !.model = m,
                             !.attrs = @ \cup {"_intercept"},
                             !.intercept = ProbeIntercept(w, m, c.F)]]

\* a dimension test that lets matrices through
MultiColumnTreatment_Ndim2(w, T) == T.nd > 2 /\ w.d_t[1] > 1

\* (np.ndim(T_res) > 1) and (self._d_t[0] > 1)
MultiColumnTreatment(w, T) == T.nd > 1 /\ w.d_t[1] > 1

\* a weighting-trick branch that probes the fitted model as standard mode does
FitWeightTrick_Probes(w, X, T, Y, sw, sv, base) ==
    IF MultiColumnTreatment(w, T)
    THEN [err |-> "UnsupportedTreatmentDimension", w |-> w]
    ELSE LET c == FinalCombine(w, X, OnesVec(NRows(T)), TRUE)
             tres == Ravel(T)
             m == ModelFit(w.model, c.F, TrickTarget(Y, tres),
                           TrickWeight(sw, tres),
                           IF sw # None THEN TrickTargetVar(sv, tres) ELSE None,
                           base)
         IN IF c.err # ""
            THEN [err |-> c.err, w |-> w]
            ELSE [err |-> "",
                  w |-> [w EXCEPT !.original_featurizer = c.feat,
                                  !.model = m,
                                  !.attrs = @ \cup {"_intercept"},
                                  !.intercept = ProbeIntercept(w, m, c.F)]]

\* the weighting-trick branch of fit
FitWeightTrick(w, X, T, Y, sw, sv, base) ==
    IF MultiColumnTreatment(w, T)
    THEN [err |-> "UnsupportedTreatmentDimension", w |-> w]
    ELSE LET c == FinalCombine(w, X, OnesVec(NRows(T)), TRUE)
             tres == Ravel(T)
             m == ModelFit(w.model, c.F, TrickTarget(Y, tres),
                           TrickWeight(sw, tres),
                           IF sw # None THEN TrickTargetVar(sv, tres) ELSE None,
                           base)
         IN IF c.err # ""
            THEN [err |-> c.err, w |-> w]
            ELSE [err |-> "",
                  w |-> [w EXCEPT !.original_featurizer = c.feat,
                                  !.model = m,
                                  !.attrs = @ \cup {"_intercept"},
                                  !.intercept = None]]

\* _FinalWrapper.fit(X, T_res, Y_res, sample_weight, sample_var) on wrapper w
\* with a regressor that learns baseline base
FinalFitResult(w, X, T, Y, sw, sv, base) ==
    LET w1 == [w EXCEPT !.d_t = ShapeTail(T), !.d_y = ShapeTail(Y),
                        !.attrs = @ \cup {"_d_t", "_d_y"}]
    IN IF ~w1.use_weight_trick
       THEN FitStandard(w1, X, T, Y, sw, sv, base)
       ELSE IF ~w1.fit_cate_intercept
       THEN FitWeightTrick(w1, X, T, Y, sw, sv, base)
       ELSE \* "This combination is not a feasible one!"
            [err |-> "InfeasibleConfiguration", w |-> w1]

\* a predict that returns the raw predictions
SubtractIntercept_Skip(w, prediction) == prediction

\* prediction -= self._intercept, broadcast over the rows, when one is recorded
SubtractIntercept(w, prediction) ==
    IF w.intercept = None THEN prediction
    ELSE IF prediction.nd = 1
    THEN Vec([i \in 1..Len(prediction.v) |-> prediction.v[i] - w.intercept.v[1]])
    ELSE Mat([i \in 1..Len(prediction.v) |->
                [k \in 1..Len(prediction.v[i]) |->
                   prediction.v[i][k] - w.intercept.v[1][k]]])

\* a predict that stands an absent X for NSamples implicit rows
PredictDesign_ImplicitRows(w, X) ==
    LET b == broadcast_unit_treatments(
                 IF X # None THEN X ELSE Mat([i \in 1..NSamples |-> <<>>]),
                 IF w.d_t # <<>> THEN w.d_t[1] ELSE 1)
    IN FinalCombine(w, IF X = None THEN None ELSE b.X, b.T, FALSE)

\* a predict that probes a single unit treatment whatever the fit saw
PredictDesign_SingleTreatment(w, X) ==
    LET b == broadcast_unit_treatments(IF X # None THEN X ELSE Mat(<< <<>> >>), 1)
    IN FinalCombine(w, IF X = None THEN None ELSE b.X, b.T, FALSE)

\* the design rows predict probes: every unit treatment at every row of X
\* (a single implicit row when X is None)
PredictDesign(w, X) ==
    LET b == broadcast_unit_treatments(IF X # None THEN X ELSE Mat(<< <<>> >>),
                                       IF w.d_t # <<>> THEN w.d_t[1] ELSE 1)
    IN FinalCombine(w, IF X = None THEN None ELSE b.X, b.T, FALSE)

\* _FinalWrapper.predict(X) on wrapper w: the effect tensor, or the error raised
FinalPredictResult(w, X) ==
    IF "_d_t" \notin w.attrs
    THEN [err |-> "AttributeError", value |-> None]
    ELSE LET c == PredictDesign(w, X)
         IN IF c.err # ""
            THEN [err |-> c.err, value |-> None]
            ELSE IF ~w.model.fitted
            THEN [err |-> "NotFittedError", value |-> None]
            ELSE IF Len(c.F.v[1]) # Len(w.model.X.v[1])
            THEN [err |-> "ValueError", value |-> None]
            ELSE LET prediction == SubtractIntercept(w, ModelPredict(w.model, c.F))
                 IN IF ~ReshapeOk(prediction, w.d_t, w.d_y)
                    THEN [err |-> "ValueError", value |-> None]
                    ELSE [err |-> "",
                          value |-> reshape_treatmentwise_effects(
                                        prediction, w.d_t, w.d_y)]

-----------------------------------------------------------------------------
(* The caller's observation block and the arrays it passes *)

\* all blocks of NSamples rows over the given values
Datasets(TV, YV, WV) ==
    [T : [1..NSamples -> TV], Y : [1..NSamples -> YV], w : [1..NSamples -> WV]]

\* residual treatments on both sides of the clip threshold and of zero
TrickData == Datasets({-4, -1, 0, 1, 4}, {-6, 6}, {2})

FinalData == Datasets({4}, {6}, {2})

\* T_res as a vector (d = 0) or as a matrix of d columns
TView(d) ==
    IF d = 0 THEN Vec(data.T)
    ELSE Mat([i \in 1..NSamples |-> [j \in 1..d |-> j * data.T[i]]])

\* Y_res as a vector (d = 0) or as a matrix of d columns
YView(d) ==
    IF d = 0 THEN Vec(data.Y)
    ELSE Mat([i \in 1..NSamples |-> [j \in 1..d |-> j * data.Y[i]]])

\* X: None or a single feature column
XView(given) == IF given THEN Mat([i \in 1..NSamples |-> <<i>>]) ELSE None

\* sample_weight: None or one weight per row
SWView(given) == IF given THEN Vec(data.w) ELSE None

\* sample_var: None or one variance per entry of Y_res
SVView(given, d) ==
    IF ~given THEN None
    ELSE IF d = 0 THEN Vec([i \in 1..NSamples |-> 2 * data.w[i]])
    ELSE Mat([i \in 1..NSamples |-> [j \in 1..d |-> 2 * data.w[i]]])

\* the baselines a regressor may learn: zero for every outcome, or non-zero
\* for one of them
BaseChoices(Y) ==
    LET k == IF Y.nd = 1 THEN 1 ELSE Len(Y.v[1])
    IN {[j \in 1..k |-> 0]} \cup {[j \in 1..k |-> IF j = nz THEN 5 ELSE 0] : nz \in 1..k}

NoCall == [op |-> "none", err |-> "", args |-> <<>>, value |-> None]

\* no first-stage wrapper / estimator under study
Idle == [id |-> 0]

-----------------------------------------------------------------------------
(* Actions on the final-stage wrapper *)

\* whether the call before this one was a successful fit on the same data in
\* which the regressor learned the same baseline
RepeatsLastFit(X, T, Y, sw, sv, base) ==
    /\ ret.op = "final.fit" /\ ret.err = ""
    /\ ret.args.X = X /\ ret.args.T = T /\ ret.args.Y = Y
    /\ ret.args.sw = sw /\ ret.args.sv = sv /\ ret.args.base = base

FinalFit(X, T, Y, sw, sv, base) ==
    LET r == FinalFitResult(fw, X, T, Y, sw, sv, base)
    IN /\ fw' = r.w
       /\ ret' = [op |-> "final.fit", err |-> r.err,
                  args |-> [X |-> X, T |-> T, Y |-> Y, sw |-> sw, sv |-> sv,
                            base |-> base, had_intercept |-> fw.intercept # None,
                            repeat |-> RepeatsLastFit(X, T, Y, sw, sv, base)],
                  value |-> None]
       /\ UNCHANGED <<data, fsw, est, nalloc>>

\* the latest fit call on the wrapper, as the record of calls shows it: whether
\* it succeeded, whether it was given X, and the trailing shapes of its T_res
\* and Y_res
LastFit ==
    IF ret.op = "final.fit"
    THEN [ok |-> ret.err = "", hasX |-> ret.args.X # None,
          d_t |-> ShapeTail(ret.args.T), d_y |-> ShapeTail(ret.args.Y)]
    ELSE IF ret.op = "final.predict" THEN ret.args.last
    ELSE [ok |-> FALSE, hasX |-> FALSE, d_t |-> <<>>, d_y |-> <<>>]

FinalPredict(X) ==
    LET r == FinalPredictResult(fw, X)
    IN /\ ret' = [op |-> "final.predict", err |-> r.err,
                  args |-> [X |-> X, last |-> LastFit], value |-> r.value]
       /\ UNCHANGED <<data, fw, fsw, est, nalloc>>

FinalInit ==
    /\ data \in FinalData
    /\ fw \in {FinalWrapperNew("final", fci, f, uwt, 1) :
                  fci \in BOOLEAN, f \in Featurizers, uwt \in BOOLEAN}
    /\ fsw = Idle /\ est = Idle /\ nalloc = 1
    /\ ret = NoCall

FinalNext ==
    \/ \E hasX \in BOOLEAN, dt \in 0..MaxDt, dy \in 0..MaxDy :
          \E base \in BaseChoices(YView(dy)) :
             FinalFit(XView(hasX), TView(dt), YView(dy), None, None, base)
    \/ \E hasX \in BOOLEAN : FinalPredict(XView(hasX))

SpecFinal == FinalInit /\ [][FinalNext]_vars

\* the weighting trick on residuals around the clip threshold
TrickInit ==
    /\ data \in TrickData
    /\ fw = FinalWrapperNew("final", FALSE, "None", TRUE, 1)
    /\ fsw = Idle /\ est = Idle /\ nalloc = 1
    /\ ret = NoCall

TrickNext ==
    \/ \E dt \in 0..1, dy \in 0..1, useW \in BOOLEAN :
          \E base \in BaseChoices(YView(dy)) :
             FinalFit(XView(TRUE), TView(dt), YView(dy), SWView(useW), None, base)
    \/ FinalPredict(XView(TRUE))

SpecTrick == TrickInit /\ [][TrickNext]_vars

\* residuals with sample weights and sample variances, each given or not
VarData == Datasets({-1, 4}, {6}, {2})

VarInit ==
    /\ data \in VarData
    /\ fw \in {FinalWrapperNew("final", FALSE, "None", uwt, 1) : uwt \in BOOLEAN}
    /\ fsw = Idle /\ est = Idle /\ nalloc = 1
    /\ ret = NoCall

VarNext ==
    \/ \E dt \in 0..1, dy \in 0..1, useW \in BOOLEAN, useV \in BOOLEAN :
          \E base \in BaseChoices(YView(dy)) :
             FinalFit(XView(TRUE), TView(dt), YView(dy), SWView(useW),
                      SVView(useV, dy), base)
    \/ FinalPredict(XView(TRUE))

SpecVar == VarInit /\ [][VarNext]_vars

\* the seeds and generators a random-feature featurizer is given
SeedConfigs ==
    {[kind |-> k, seed |-> sd, pos |-> 0] : k \in {"int", "instance"}, sd \in {0, 1}}

\* _FinalWrapper(model_final, fit_cate_intercept, _RandomFeatures(dim, bw,
\* random_state), False): the copy of a featurizer that is no scikit-learn
\* estimator is a deep copy
KernelFinalWrapper(fit_cate_intercept, dim, random_state, oid) ==
    [FinalWrapperNew("final", fit_cate_intercept, "None", FALSE, oid)
        EXCEPT !.original_featurizer = RandomFeaturesNew(dim, 1, random_state)]

\* the caller's data and the random_state it configures
KernelData ==
    {[T |-> d.T, Y |-> d.Y, w |-> d.w, random_state |-> rs] :
        d \in FinalData, rs \in SeedConfigs}

KernelInit ==
    /\ data \in KernelData
    /\ fw \in {KernelFinalWrapper(fci, dim, data.random_state, 1) :
                  fci \in BOOLEAN, dim \in {1, 2}}
    /\ fsw = Idle /\ est = Idle /\ nalloc = 1
    /\ ret = NoCall

\* a generator is followed for MaxDraws draws
DrawsLeft ==
    LET f == fw.original_featurizer
    IN f.random_state.kind = "instance"
          => f.random_state.pos + DrawsOfFit(f, XView(TRUE)) <= MaxDraws

KernelNext ==
    \/ /\ DrawsLeft
       /\ \E hasX \in BOOLEAN, dt \in 0..1, dy \in 0..1 :
             \E base \in BaseChoices(YView(dy)) :
                FinalFit(XView(hasX), TView(dt), YView(dy), None, None, base)
    \/ \E hasX \in BOOLEAN : FinalPredict(XView(hasX))

SpecKernel == KernelInit /\ [][KernelNext]_vars

-----------------------------------------------------------------------------
(* Properties of the final-stage wrapper *)

FitCalled == ret.op = "final.fit"
FitOk == ret.op = "final.fit" /\ ret.err = ""

\* whether the array has more than one column
MultiColumn(T) == T.nd = 2 /\ Len(T.v[1]) > 1

\* C1, as stated: fit on a wrapper constructed with use_weight_trick = true and
\* fit_cate_intercept = true fails with InfeasibleConfiguration for every input.
C1_Original ==
    (FitCalled /\ fw.use_weight_trick /\ fw.ctor_fit_cate_intercept)
        => ret.err = "InfeasibleConfiguration"

\* C1, amended: the constructor of such a wrapper switches the intercept off;
\* its fit fails with InfeasibleConfiguration exactly when X is absent (and the
\* residual treatment has at most one column), and succeeds when X is present
\* and the residual treatment has at most one column.
C1_InterceptSwitchedOff ==
    (FitCalled /\ fw.use_weight_trick /\ fw.ctor_fit_cate_intercept)
        => /\ ~fw.fit_cate_intercept
           /\ (ret.err = "InfeasibleConfiguration")
                  <=> (ret.args.X = None /\ ~MultiColumn(ret.args.T))
           /\ (ret.args.X # None /\ ~MultiColumn(ret.args.T)) => ret.err = ""

C1_Witness ==
    FitOk /\ fw.use_weight_trick /\ fw.ctor_fit_cate_intercept /\ fw.model.fitted

\* C5, as stated: a fit with X absent and no intercept column available
\* (standard mode without intercept, or any weighting-trick wrapper) fails with
\* InfeasibleConfiguration before the regressor is fit; with X absent and an
\* intercept in standard mode the features are a single ones column and the fit
\* succeeds.
C5_Original ==
    [][(ret'.op = "final.fit" /\ ret'.args.X = None)
          => IF fw.use_weight_trick \/ ~fw.fit_cate_intercept
             THEN ret'.err = "InfeasibleConfiguration" /\ fw'.model = fw.model
             ELSE /\ ret'.err = ""
                  /\ fw'.model.fitted
                  /\ fw'.model.X = Mat(Rows(ret'.args.T))]_vars

\* C5, amended: as stated, except that a weighting-trick wrapper given a
\* residual treatment of more than one column fails with
\* UnsupportedTreatmentDimension instead; in every failing case the regressor is
\* left as it was.
C5_AbsentX ==
    [][(ret'.op = "final.fit" /\ ret'.args.X = None)
          => IF fw.use_weight_trick /\ MultiColumn(ret'.args.T)
             THEN ret'.err = "UnsupportedTreatmentDimension" /\ fw'.model = fw.model
             ELSE IF fw.use_weight_trick \/ ~fw.fit_cate_intercept
             THEN ret'.err = "InfeasibleConfiguration" /\ fw'.model = fw.model
             ELSE /\ ret'.err = ""
                  /\ fw'.model.fitted
                  /\ fw'.model.X = Mat(Rows(ret'.args.T))]_vars

C5_Witness ==
    /\ FitOk /\ ret.args.X = None /\ ~fw.use_weight_trick /\ fw.fit_cate_intercept
    /\ fw.model.X = Mat(Rows(ret.args.T))

\* C6: in weighting-trick mode fit fails with UnsupportedTreatmentDimension
\* exactly when the residual treatment has more than one column, leaving the
\* regressor as it was; a treatment of shape (n,) or (n,1) is accepted (the fit
\* succeeds when X is present).
C6_TreatmentDimension ==
    [][(ret'.op = "final.fit" /\ fw.use_weight_trick)
          => /\ (ret'.err = "UnsupportedTreatmentDimension")
                    <=> MultiColumn(ret'.args.T)
             /\ MultiColumn(ret'.args.T) => fw'.model = fw.model
             /\ (~MultiColumn(ret'.args.T) /\ ret'.args.X # None)
                    => ret'.err = "" /\ fw'.model.fitted]_vars

C6_Witness ==
    /\ FitCalled /\ fw.use_weight_trick /\ MultiColumn(ret.args.T)
    /\ ret.err = "UnsupportedTreatmentDimension"

\* C9: after a successful standard-mode fit the recorded intercept is that of
\* the latest fitted model alone: its prediction at an all-zero design row when
\* that has a non-zero entry, and None otherwise, whatever was recorded before.
C9_InterceptFromLatestFit ==
    (FitOk /\ ~fw.use_weight_trick)
        => LET zero == [j \in 1..Len(fw.model.X.v[1]) |-> 0]
               p == [k \in 1..Len(fw.model.base) |-> PredictOne(fw.model, zero, k)]
           IN /\ "_intercept" \in fw.attrs
              /\ IF \E k \in DOMAIN p : p[k] # 0
                 THEN fw.intercept = IF ret.args.Y.nd = 1 THEN Vec(p) ELSE Mat(<<p>>)
                 ELSE fw.intercept = None

C9_Witness ==
    FitOk /\ ~fw.use_weight_trick /\ ret.args.had_intercept /\ fw.intercept = None

\* the recorded intercept for outcome k (0 when none is recorded)
RecordedIntercept(k) == IF fw.intercept = None THEN 0 ELSE Rows(fw.intercept)[1][k]

\* C10: every effect predict returns is the regressor's prediction on the
\* corresponding unit-treatment design row minus the recorded intercept for
\* that outcome (the raw prediction when none is recorded).
C10_PredictSubtractsIntercept ==
    (ret.op = "final.predict" /\ ret.err = "")
        => LET D == PredictDesign(fw, ret.args.X).F
               raw == [r \in 1..Len(D.v) |->
                         [k \in 1..Len(fw.model.base) |->
                            PredictOne(fw.model, D.v[r], k) - RecordedIntercept(k)]]
               d == IF fw.d_t = <<>> THEN 1 ELSE fw.d_t[1]
               n == Len(D.v) \div d
               tOf(ix) == IF fw.d_t = <<>> THEN 1 ELSE ix[Len(ix)]
               yOf(ix) == IF fw.d_y = <<>> THEN 1 ELSE ix[2]
           IN /\ ret.value = reshape_treatmentwise_effects(
                                 IF fw.model.y.nd = 1
                                 THEN Vec([r \in 1..Len(D.v) |-> raw[r][1]])
                                 ELSE Mat(raw),
                                 fw.d_t, fw.d_y)
              /\ fw.d_y = ShapeTail(fw.model.y)
                    => \A ix \in DOMAIN ret.value.at :
                          ret.value.at[ix] = raw[(tOf(ix) - 1) * n + ix[1]][yOf(ix)]

C10_Witness ==
    /\ ret.op = "final.predict" /\ ret.err = ""
    /\ fw.intercept # None /\ fw.d_t = <<2>> /\ fw.d_y = <<2>>
    /\ fw.d_y = ShapeTail(fw.model.y)

\* the last call is a successful predict issued after a successful fit
PredictAfterFit ==
    ret.op = "final.predict" /\ ret.err = "" /\ ret.args.last.ok

\* the feature row of sample i of X as the fitted wrapper computes it (a single
\* one when X is None)
FeatureRow(X, i) ==
    IF X = None THEN <<1>>
    ELSE IF FeaturizerIsNone(fw) THEN X.v[i]
    ELSE Featurize(fw, X, FALSE).F.v[i]

\* the design row of feature row f under unit treatment t of nt
UnitDesignRow(f, t, nt) ==
    cross_product(Mat(<<f>>), Mat(<< [j \in 1..nt |-> IF j = t THEN 1 ELSE 0] >>)).v[1]

\* C11: after a successful fit with treatment shape (n,) + d_t and outcome shape
\* (n,) + d_y, predict on an X of the kind the fit was given succeeds and
\* returns a tensor of shape (n,) + d_y + d_t over the n rows of X whose entry
\* [i, y, t] is the model's prediction for outcome y on the design row of
\* sample i under unit treatment t, minus the recorded intercept; when the
\* training treatment was a vector, one unit treatment is probed and the tensor
\* has no treatment axis.
C11_EffectTensor ==
    (ret.op = "final.predict" /\ ret.args.last.ok
        /\ (ret.args.X # None) = ret.args.last.hasX)
        => LET X == ret.args.X
               n == IF X = None THEN 1 ELSE NRows(X)
               d_t == ret.args.last.d_t
               d_y == ret.args.last.d_y
               nt == IF d_t = <<>> THEN 1 ELSE d_t[1]
               ys == IF d_y = <<>> THEN {<<>>} ELSE {<<y>> : y \in 1..d_y[1]}
               ts == IF d_t = <<>> THEN {<<>>} ELSE {<<t>> : t \in 1..d_t[1]}
               tOf(ix) == IF d_t = <<>> THEN 1 ELSE ix[Len(ix)]
               yOf(ix) == IF d_y = <<>> THEN 1 ELSE ix[2]
           IN /\ ret.err = ""
              /\ ret.value.shape = <<n>> \o d_y \o d_t
              /\ DOMAIN ret.value.at = {<<i>> \o y \o t : i \in 1..n, y \in ys, t \in ts}
              /\ \A ix \in DOMAIN ret.value.at :
                    ret.value.at[ix] =
                        PredictOne(fw.model,
                                   UnitDesignRow(FeatureRow(X, ix[1]), tOf(ix), nt),
                                   yOf(ix))
                        - RecordedIntercept(yOf(ix))

C11_Witness ==
    /\ PredictAfterFit /\ ret.args.X # None
    /\ ret.value.shape = <<NSamples, 2, 2>>
    /\ fw.intercept # None

\* the arrays the latest fit was given, rebuilt from the record of calls
LastFitX == XView(ret.args.last.hasX)
LastFitT ==
    IF ret.args.last.d_t = <<>> THEN TView(0) ELSE TView(ret.args.last.d_t[1])

\* the columns of the design the model was fit on that hold feature f times
\* treatment column t
FitColumnsOf(f, t) ==
    {j \in 1..Len(fw.model.X.v[1]) :
        \A i \in 1..NRows(fw.model.X) :
           fw.model.X.v[i][j] = FeatureRow(LastFitX, i)[f] * Rows(LastFitT)[i][t]}

\* the coefficient the fitted regressor holds for design column j
Coefficient(j) ==
    LET e == [c \in 1..Len(fw.model.X.v[1]) |-> IF c = j THEN 1 ELSE 0]
    IN PredictOne(fw.model, e, 1) - fw.model.base[1]

\* C12: after a successful standard-mode fit, every (feature, treatment) pair
\* has one column of the fitted design, and predict returns, for every sample,
\* outcome and treatment, the sum over features f of the regressor's
\* coefficient for the fit column of (f, t) times feature f of the sample:
\* probing with unit treatments reads the coefficients at the positions the
\* fit put them.
C12_SameFlattening ==
    (PredictAfterFit /\ ~fw.use_weight_trick)
        => LET X == ret.args.X
               d_t == ret.args.last.d_t
               nt == IF d_t = <<>> THEN 1 ELSE d_t[1]
               nf == Len(FeatureRow(X, 1))
               tOf(ix) == IF d_t = <<>> THEN 1 ELSE ix[Len(ix)]
               col(f, t) == CHOOSE j \in FitColumnsOf(f, t) : TRUE
           IN /\ \A f \in 1..nf, t \in 1..nt : Cardinality(FitColumnsOf(f, t)) = 1
              /\ \A ix \in DOMAIN ret.value.at :
                    ret.value.at[ix] =
                        SumSeq([f \in 1..nf |->
                                  Coefficient(col(f, tOf(ix)))
                                     * FeatureRow(X, ix[1])[f]])

C12_Witness ==
    /\ PredictAfterFit /\ ~fw.use_weight_trick /\ ret.args.X # None
    /\ ret.args.last.d_t = <<2>>
    /\ Len(FeatureRow(ret.args.X, 1)) = 3

\* C13: predict with X absent, after a successful fit with X absent (standard
\* mode with an intercept), succeeds and evaluates the model on one implicit
\* sample: the design rows are the d_t unit treatment vectors (times a ones
\* feature), and the tensor has leading dimension 1 and holds, for every
\* outcome y and treatment t, the prediction on unit vector t minus the
\* recorded intercept.
C13_AbsentXPredict ==
    (ret.op = "final.predict" /\ ret.args.X = None
        /\ ret.args.last.ok /\ ~ret.args.last.hasX)
        => LET d_t == ret.args.last.d_t
               d_y == ret.args.last.d_y
               nt == IF d_t = <<>> THEN 1 ELSE d_t[1]
               unit(t) == [j \in 1..nt |-> IF j = t THEN 1 ELSE 0]
               tOf(ix) == IF d_t = <<>> THEN 1 ELSE ix[Len(ix)]
               yOf(ix) == IF d_y = <<>> THEN 1 ELSE ix[2]
           IN /\ ret.err = ""
              /\ PredictDesign(fw, None).F = Mat([t \in 1..nt |-> unit(t)])
              /\ ret.value.shape = <<1>> \o d_y \o d_t
              /\ \A ix \in DOMAIN ret.value.at :
                    /\ ix[1] = 1
                    /\ ret.value.at[ix] =
                          PredictOne(fw.model, unit(tOf(ix)), yOf(ix))
                          - RecordedIntercept(yOf(ix))

C13_Witness ==
    /\ PredictAfterFit /\ ret.args.X = None /\ ~ret.args.last.hasX
    /\ ret.value.shape = <<1, 2, 2>>

\* C16: with a featurizer configured with an integer seed, a fit that repeats
\* the fit before it (same data, the regressor learning the same baseline) succeeds
\* and leaves the featurizer with the parameters it had (although it is refit),
\* the recorded intercept it had, and the predictions it gave.
C16_RefitReproduces ==
    [][(ret'.op = "final.fit" /\ ret'.args.repeat
           /\ data.random_state.kind = "int")
          => /\ ret'.err = ""
             /\ fw'.original_featurizer = fw.original_featurizer
             /\ fw'.intercept = fw.intercept
             /\ \A hasX \in BOOLEAN :
                   FinalPredictResult(fw', XView(hasX))
                      = FinalPredictResult(fw, XView(hasX))]_vars

C16_Witness ==
    /\ FitOk /\ ret.args.repeat /\ ret.args.X # None
    /\ fw.original_featurizer.kind = "Random"
    /\ data.random_state.kind = "int"
    /\ fw.original_featurizer.fitted > 0
    /\ fw.original_featurizer.dim = 2
    /\ fw.intercept # None

-----------------------------------------------------------------------------
(* Properties of the weighting trick *)

TrickFitOk == FitOk /\ fw.use_weight_trick

\* the residual treatment of sample i in the last fit
TRes(i) == Rows(ret.args.T)[i][1]

\* the sample weight of sample i in the last fit (1 when none is given)
SampleWeight(i) == IF ret.args.sw = None THEN 1 ELSE ret.args.sw.v[i]

\* C7: in the weighting trick the regressor is given, for every sample i, the
\* target Y_res_i / clipped_i with clipped_i = s_i * max(|T_res_i|, 1e-5), s_i =
\* +1 when T_res_i >= 0 and -1 otherwise (so clipped_i is never zero), and the
\* weight w_i * T_res_i^2 on the unclipped residual, w_i = 1 without weights.
C7_TrickValues ==
    TrickFitOk
        => \A i \in 1..NRows(ret.args.T) :
              LET t == TRes(i)
                  s == IF t >= 0 THEN 1 ELSE -1
                  a == IF t >= 0 THEN t ELSE -t
                  clipped == s * (IF a > ClipEps THEN a ELSE ClipEps)
              IN /\ clipped # 0
                 /\ \A k \in 1..Len(Rows(ret.args.Y)[i]) :
                       LET q == Rows(fw.model.y)[i][k]
                       IN q.den # 0 /\ q.num * clipped = Rows(ret.args.Y)[i][k] * q.den
                 /\ fw.model.sample_weight.v[i] = SampleWeight(i) * t * t

C7_Witness ==
    /\ TrickFitOk /\ ret.args.sw # None
    /\ \E i \in 1..NRows(ret.args.T) : TRes(i) = 0
    /\ \E i \in 1..NRows(ret.args.T) : TRes(i) < 0 /\ TRes(i) > -ClipEps

\* the values a candidate coefficient function may take at a sample
FCands == {-1, 0, 2}

Sq(x) == x * x

RECURSIVE ProdSeq(_)
ProdSeq(s) == IF s = <<>> THEN 1 ELSE Head(s) * ProdSeq(Tail(s))

\* the squared denominators of the targets the regressor was given
TargetDenSq == [i \in 1..NRows(ret.args.T) |-> Sq(Rows(fw.model.y)[i][1].den)]

\* sum_i weight_i * (target_i - f_i)^2 over what the regressor was given,
\* multiplied by the product of the squared denominators of the targets
TrickObjective(f) ==
    SumSeq([i \in 1..NRows(ret.args.T) |->
              fw.model.sample_weight.v[i]
              * Sq(Rows(fw.model.y)[i][1].num - f[i] * Rows(fw.model.y)[i][1].den)
              * (ProdSeq(TargetDenSq) \div TargetDenSq[i])])

\* sum_i w_i * (Y_res_i - f_i * T_res_i)^2, multiplied by the same product
ResidualLoss(f, weighted) ==
    ProdSeq(TargetDenSq)
    * SumSeq([i \in 1..NRows(ret.args.T) |->
                (IF weighted THEN SampleWeight(i) ELSE 1)
                * Sq(Rows(ret.args.Y)[i][1] - f[i] * TRes(i))])

\* C8, as stated: for every residual vector and every candidate f the
\* weighting-trick objective equals the residual-on-residual loss.
C8_Original ==
    (TrickFitOk /\ ret.args.sw = None)
        => \A f \in [1..NRows(ret.args.T) -> FCands] :
              TrickObjective(f) = ResidualLoss(f, FALSE)

\* C8, amended: the weighting-trick objective equals the (sample-weighted)
\* residual-on-residual loss for every candidate f whenever every residual
\* treatment has magnitude at least 1e-5, so that no entry is clipped.
C8_ObjectiveEqualsLoss ==
    (TrickFitOk /\ \A i \in 1..NRows(ret.args.T) : Abs(TRes(i)) >= ClipEps)
        => \A f \in [1..NRows(ret.args.T) -> FCands] :
              TrickObjective(f) = ResidualLoss(f, TRUE)

C8_Witness ==
    /\ TrickFitOk /\ ret.args.sw # None
    /\ \A i \in 1..NRows(ret.args.T) : Abs(TRes(i)) >= ClipEps
    /\ \E i \in 1..NRows(ret.args.T) : TRes(i) < 0
    /\ \E i \in 1..NRows(ret.args.T) : TRes(i) > 0

-----------------------------------------------------------------------------
(* _FirstStageWrapper *)

FirstStageWrapperNew(model, is_Y, featurizer, linear_first_stages, discrete_treatment, oid) ==
    [id |-> oid,
     model |-> CloneModel(model, oid),
     featurizer |-> CloneFeaturizer(featurizer),
     is_Y |-> is_Y,
     linear_first_stages |-> linear_first_stages,
     discrete_treatment |-> discrete_treatment]

\* np.any(np.all(Target == 0, axis=0)): some column is zero in every row
AnyZeroColumn(Target) ==
    \E k \in 1..Len(Target.v[1]) : \A i \in 1..Len(Target.v) : Target.v[i][k] = 0

\* np.any(np.all(Target == 0, axis=1)): some row is zero in every column
AnyZeroRow(Target) ==
    \E i \in 1..Len(Target.v) : \A k \in 1..Len(Target.v[i]) : Target.v[i][k] = 0

\* a fold test that rejects a fold containing an all-zero row
MissingTreatments_RowTestInverted(Target) ==
    AnyZeroColumn(Target) \/ AnyZeroRow(Target)

\* a fold test that looks at the rows only
MissingTreatments_NoColumnTest(Target) == ~AnyZeroRow(Target)

\* the test of fit on the one-hot block of a training split: some category
\* never occurs, or no row is all-zero
MissingTreatments(Target) ==
    AnyZeroColumn(Target) \/ ~AnyZeroRow(Target)

\* a _combine that fits the featurizer only the first time
FirstCombine_FitOnce(w, X, W, n_samples, fitting) ==
    IF X = None
    THEN [err |-> "", F |-> IF W # None THEN W ELSE OnesCol(n_samples),
          feat |-> w.featurizer]
    ELSE LET XW == IF W # None THEN hstack(X, W) ELSE X
         IN IF w.is_Y /\ w.linear_first_stages
            THEN LET f == w.featurizer
                     F == IF f.kind = "None" THEN X ELSE PolyTransform(X)
                     f2 == IF f.kind # "None" /\ fitting /\ f.fitted = 0
                           THEN FeaturizerFit(f, X)
                           ELSE f
                 IN [err |-> "",
                     F |-> cross_product(XW, hstack(OnesCol(NRows(XW)), F)),
                     feat |-> f2]
            ELSE [err |-> "", F |-> XW, feat |-> w.featurizer]

\* a _combine that expands the input of the treatment model as well
FirstCombine_ExpandsAll(w, X, W, n_samples, fitting) ==
    IF X = None
    THEN [err |-> "", F |-> IF W # None THEN W ELSE OnesCol(n_samples),
          feat |-> w.featurizer]
    ELSE LET XW == IF W # None THEN hstack(X, W) ELSE X
         IN IF w.linear_first_stages
            THEN LET f == w.featurizer
                     F == IF f.kind = "None" THEN X ELSE PolyTransform(X)
                     f2 == IF f.kind # "None" /\ fitting
                           THEN FeaturizerFit(f, X)
                           ELSE f
                 IN IF f.kind # "None" /\ ~fitting /\ f.fitted # Len(X.v[1])
                    THEN [err |-> "FeaturizerError", F |-> None, feat |-> f]
                    ELSE [err |-> "",
                          F |-> cross_product(XW, hstack(OnesCol(NRows(XW)), F)),
                          feat |-> f2]
            ELSE [err |-> "", F |-> XW, feat |-> w.featurizer]

\* _combine(X, W, n_samples, fitting): the design block and the featurizer
\* as the call leaves it
FirstCombine(w, X, W, n_samples, fitting) ==
    IF X = None
    THEN [err |-> "", F |-> IF W # None THEN W ELSE OnesCol(n_samples),
          feat |-> w.featurizer]
    ELSE LET XW == IF W # None THEN hstack(X, W) ELSE X
         IN IF w.is_Y /\ w.linear_first_stages
            THEN LET f == w.featurizer
                     F == IF f.kind = "None" THEN X ELSE PolyTransform(X)
                     f2 == IF f.kind # "None" /\ fitting
                           THEN FeaturizerFit(f, X)
                           ELSE f
                 IN IF f.kind # "None" /\ ~fitting /\ f.fitted # Len(X.v[1])
                    THEN \* transform of a featurizer that was not fitted
                         [err |-> "FeaturizerError", F |-> None, feat |-> f]
                    ELSE [err |-> "",
                          F |-> cross_product(XW, hstack(OnesCol(NRows(XW)), F)),
                          feat |-> f2]
            ELSE [err |-> "", F |-> XW, feat |-> w.featurizer]

\* fit_with_groups(model, X, y, groups=None, sample_weight=...): without groups
\* the model is fit on what it is given
fit_with_groups(m, X, y, sw) ==
    ModelFit(m, X, y, sw, None, [j \in 1..Len(Rows(y)[1]) |-> 0])

\* fit(X, W, Target, sample_weight): the error raised ("" when none) and the
\* wrapper as the call leaves it
FirstFitResult(w, X, W, Target, sw) ==
    IF ~w.is_Y /\ w.discrete_treatment /\ MissingTreatments(Target)
    THEN [err |-> "InvalidFoldSplit", w |-> w]
    ELSE LET y == IF ~w.is_Y /\ w.discrete_treatment
                  THEN inverse_onehot(Target)
                  ELSE Target
             c == FirstCombine(w, X, W, NRows(y), TRUE)
         IN [err |-> "",
             w |-> [w EXCEPT !.featurizer = c.feat,
                             !.model = fit_with_groups(w.model, c.F, y, sw)]]

\* a capability test that every model passes
HasScore_Always(m) == m.proto = m.proto

\* hasattr(self._model, 'score'): whether the model has the score capability
HasScore(m) == m.proto # "no_score"

\* model.score(D, y, sample_weight=...): the fitted model's score on the block,
\* an opaque function of the model and of what it is given
ModelScore(m, D, y, sw) ==
    [model |-> m.id, block |-> D, y |-> y, sample_weight |-> sw]

\* model.predict_proba(D): one column per class the classifier was fit on
ModelPredictProba(m, D) ==
    LET ncls == Cardinality({m.y.v[i] : i \in 1..Len(m.y.v)})
    IN Mat([i \in 1..Len(D.v) |->
              [c \in 1..ncls |-> c * PredictOne(m, D.v[i], 1)]])

\* A[:, 1:]
DropFirstColumn(A) == Mat([i \in 1..Len(A.v) |-> Tail(A.v[i])])

\* predict(X, W): the error raised ("" when none), the value returned and the
\* block handed to the model
FirstPredictResult(w, X, W) ==
    LET n_samples == IF X # None THEN NRows(X)
                     ELSE IF W # None THEN NRows(W) ELSE 1
        c == FirstCombine(w, X, W, n_samples, FALSE)
    IN IF c.err # ""
       THEN [err |-> c.err, value |-> None, block |-> None]
       ELSE IF ~w.model.fitted
       THEN [err |-> "NotFittedError", value |-> None, block |-> c.F]
       ELSE IF Len(c.F.v[1]) # Len(w.model.X.v[1])
       THEN [err |-> "ValueError", value |-> None, block |-> c.F]
       ELSE IF ~w.is_Y /\ w.discrete_treatment
       THEN [err |-> "", value |-> DropFirstColumn(ModelPredictProba(w.model, c.F)),
             block |-> c.F]
       ELSE [err |-> "", value |-> ModelPredict(w.model, c.F), block |-> c.F]

\* score(X, W, Target, sample_weight): the error raised, the value returned
\* (None when the model cannot score) and the wrapper as the call leaves it
FirstScoreResult(w, X, W, Target, sw) ==
    IF ~HasScore(w.model)
    THEN [err |-> "", value |-> None, w |-> w]
    ELSE LET y == IF ~w.is_Y /\ w.discrete_treatment
                  THEN inverse_onehot(Target)
                  ELSE Target
             c == FirstCombine(w, X, W, NRows(y), TRUE)
             w1 == [w EXCEPT !.featurizer = c.feat]
         IN IF ~w.model.fitted
            THEN [err |-> "NotFittedError", value |-> None, w |-> w1]
            ELSE IF Len(c.F.v[1]) # Len(w.model.X.v[1])
            THEN [err |-> "ValueError", value |-> None, w |-> w1]
            ELSE [err |-> "", value |-> ModelScore(w.model, c.F, y, sw), w |-> w1]

-----------------------------------------------------------------------------
(* The training splits the cross-fitting engine hands to a first-stage wrapper *)

\* a row of a one-hot block whose baseline column is dropped: all zero, or set
\* in one column
OneHotRows(k) ==
    {[j \in 1..k |-> 0]} \cup {[j \in 1..k |-> IF j = c THEN 1 ELSE 0] : c \in 1..k}

\* the one-hot encodings of NSamples treatments over at most MaxCats + 1
\* categories
OneHots == UNION {[1..NSamples -> OneHotRows(k)] : k \in 1..MaxCats}

FirstData ==
    [T : [1..NSamples -> {4}], Y : [1..NSamples -> {6}],
     w : [1..NSamples -> {2}], H : OneHots]

\* a training split: a non-empty set of rows
Folds == (SUBSET (1..NSamples)) \ {{}}

\* the rows of a split in increasing order
RECURSIVE FoldRows(_)
FoldRows(S) ==
    IF S = {} THEN <<>>
    ELSE LET m == CHOOSE x \in S : \A y \in S : x <= y
         IN <<m>> \o FoldRows(S \ {m})

\* A[idx]
Take(A, idx) ==
    IF A = None THEN None ELSE [A EXCEPT !.v = [i \in 1..Len(idx) |-> A.v[idx[i]]]]

\* W: None or a single column of controls
WView(given) == IF given THEN Mat([i \in 1..NSamples |-> <<i + 1>>]) ELSE None

\* what the engine passes as Target: the outcome to an outcome model, the
\* one-hot block to a model of a discrete treatment, the treatment otherwise
TargetView(w) ==
    IF w.is_Y THEN YView(0)
    ELSE IF w.discrete_treatment THEN Mat(data.H)
    ELSE TView(0)

-----------------------------------------------------------------------------
(* Actions on the first-stage wrapper *)

FirstFit(X, W, Target, sw) ==
    LET r == FirstFitResult(fsw, X, W, Target, sw)
    IN /\ fsw' = r.w
       /\ ret' = [op |-> "first.fit", err |-> r.err,
                  args |-> [X |-> X, W |-> W, Target |-> Target, sw |-> sw,
                            was_fitted |-> fsw.model.fitted],
                  value |-> None]
       /\ UNCHANGED <<data, fw, est, nalloc>>

\* the one-hot block is drawn for a model of a discrete treatment, the only
\* wrapper that is handed one
FirstInit ==
    /\ fsw \in {FirstStageWrapperNew("first", isY, f, lfs, d, 1) :
                   isY \in BOOLEAN, f \in Featurizers, lfs \in BOOLEAN,
                   d \in BOOLEAN}
    /\ data \in {d \in FirstData :
                    (fsw.is_Y \/ ~fsw.discrete_treatment)
                       => d.H = [i \in 1..NSamples |-> <<0>>]}
    /\ fw = Idle /\ est = Idle /\ nalloc = 1
    /\ ret = NoCall

FirstNext ==
    \E S \in Folds, hasX \in BOOLEAN, hasW \in BOOLEAN, useW \in BOOLEAN :
       LET idx == FoldRows(S)
       IN FirstFit(Take(XView(hasX), idx), Take(WView(hasW), idx),
                   Take(TargetView(fsw), idx), Take(SWView(useW), idx))

SpecFirst == FirstInit /\ [][FirstNext]_vars

FirstPredict(X, W) ==
    LET r == FirstPredictResult(fsw, X, W)
    IN /\ ret' = [op |-> "first.predict", err |-> r.err,
                  args |-> [X |-> X, W |-> W, block |-> r.block],
                  value |-> r.value]
       /\ UNCHANGED <<data, fw, fsw, est, nalloc>>

FirstScore(X, W, Target, sw) ==
    LET r == FirstScoreResult(fsw, X, W, Target, sw)
    IN /\ fsw' = r.w
       /\ ret' = [op |-> "first.score", err |-> r.err,
                  args |-> [X |-> X, W |-> W, Target |-> Target, sw |-> sw],
                  value |-> r.value]
       /\ UNCHANGED <<data, fw, est, nalloc>>

\* a binary treatment: the first sample in the baseline category, the others
\* treated
BinaryOneHot == [i \in 1..NSamples |-> <<IF i = 1 THEN 0 ELSE 1>>]

\* the splits handed to a wrapper: every row, every row but the first, every
\* row but the last
Splits == {1..NSamples, (1..NSamples) \ {1}, (1..NSamples) \ {NSamples}}

\* a wrapper of every configuration, around a model with or without the score
\* capability
FirstStageInit ==
    /\ data = [T |-> [i \in 1..NSamples |-> 4], Y |-> [i \in 1..NSamples |-> 6],
               w |-> [i \in 1..NSamples |-> 2], H |-> BinaryOneHot]
    /\ fsw \in {FirstStageWrapperNew(proto, isY, f, lfs, d, 1) :
                   proto \in {"first", "no_score"}, isY \in BOOLEAN,
                   f \in Featurizers, lfs \in BOOLEAN, d \in BOOLEAN}
    /\ fw = Idle /\ est = Idle /\ nalloc = 1
    /\ ret = NoCall

FirstStageNext ==
    \/ \E S \in Splits, hasX \in BOOLEAN, hasW \in BOOLEAN, useW \in BOOLEAN :
          LET idx == FoldRows(S)
          IN FirstFit(Take(XView(hasX), idx), Take(WView(hasW), idx),
                      Take(TargetView(fsw), idx), Take(SWView(useW), idx))
    \/ \E S \in Splits, hasX \in BOOLEAN, hasW \in BOOLEAN :
          LET idx == FoldRows(S)
          IN FirstPredict(Take(XView(hasX), idx), Take(WView(hasW), idx))
    \/ \E S \in Splits, hasX \in BOOLEAN, hasW \in BOOLEAN, useW \in BOOLEAN :
          LET idx == FoldRows(S)
          IN FirstScore(Take(XView(hasX), idx), Take(WView(hasW), idx),
                        Take(TargetView(fsw), idx), Take(SWView(useW), idx))

SpecFirstStage == FirstStageInit /\ [][FirstStageNext]_vars

-----------------------------------------------------------------------------
(* Properties of the first-stage wrapper *)

\* the last call is a fit of a model of a discrete treatment
DiscreteFit == ret.op = "first.fit" /\ ~fsw.is_Y /\ fsw.discrete_treatment

\* C2, as stated: when the one-hot Target has no all-zero column, the fit fails
\* with InvalidFoldSplit exactly when some row has no column set; a fold in
\* which every row has a column set and every column is covered does not raise.
C2_Original ==
    (DiscreteFit /\ ~AnyZeroColumn(ret.args.Target))
        => ((ret.err = "InvalidFoldSplit") <=> AnyZeroRow(ret.args.Target))

\* C2, amended: when the one-hot Target has no all-zero column, the fit fails
\* with InvalidFoldSplit exactly when NO row is all-zero (the baseline category
\* is missing from the split): a fold in which every row has a column set
\* raises, and a fold with every column covered and an all-zero row is fit on
\* the labels of its rows.
C2_BaselineMustOccur ==
    (DiscreteFit /\ ~AnyZeroColumn(ret.args.Target))
        => /\ (ret.err = "InvalidFoldSplit") <=> ~AnyZeroRow(ret.args.Target)
           /\ AnyZeroRow(ret.args.Target)
                 => /\ ret.err = ""
                    /\ fsw.model.fitted
                    /\ fsw.model.y = inverse_onehot(ret.args.Target)

C2_Witness ==
    /\ DiscreteFit /\ ~AnyZeroColumn(ret.args.Target)
    /\ ~AnyZeroRow(ret.args.Target) /\ ret.err = "InvalidFoldSplit"

\* C3: a fit of a model of a discrete treatment on a one-hot Target with an
\* all-zero column raises InvalidFoldSplit and leaves the wrapper's model (and
\* featurizer) as it was before the call.
C3_ZeroColumnRaisesBeforeFit ==
    [][(ret'.op = "first.fit" /\ ~fsw.is_Y /\ fsw.discrete_treatment
           /\ AnyZeroColumn(ret'.args.Target))
          => /\ ret'.err = "InvalidFoldSplit"
             /\ fsw'.model = fsw.model
             /\ fsw' = fsw]_vars

C3_Witness ==
    /\ DiscreteFit /\ AnyZeroColumn(ret.args.Target) /\ AnyZeroRow(ret.args.Target)
    /\ ret.err = "InvalidFoldSplit"
    /\ ret.args.was_fitted /\ fsw.model.fitted
    /\ fsw.model.y # inverse_onehot(ret.args.Target)

-----------------------------------------------------------------------------
(* DML: the estimator and its configuration setters *)

\* a model handed to the estimator: the string 'auto' or an estimator object;
\* obj is the identity of the object (0 for a value built on the spot)
Auto == [name |-> "auto", random_state |-> 0, obj |-> 0]
UserModels == {[name |-> "user_a", random_state |-> 0, obj |-> -1],
               [name |-> "user_b", random_state |-> 0, obj |-> -2]}
UserFinalModel == [name |-> "final", random_state |-> 0, obj |-> -3]

\* the seeds an estimator is given
RandomStates == {0, 1}

WeightedLassoCVWrapper(random_state) ==
    [name |-> "WeightedLassoCVWrapper", random_state |-> random_state, obj |-> 0]

LogisticRegressionCV(random_state) ==
    [name |-> "LogisticRegressionCV", random_state |-> random_state, obj |-> 0]

\* _prepare_model_y(model_y): records model_y and wraps the model it stands for
prepare_model_y(e, model_y, oid) ==
    [est |-> [e EXCEPT !.model_y = model_y],
     wrapper |-> FirstStageWrapperNew(
                     IF model_y = Auto
                     THEN WeightedLassoCVWrapper(e.random_state)
                     ELSE model_y,
                     TRUE, e.featurizer, e.linear_first_stages,
                     e.discrete_treatment, oid)]

\* _prepare_model_t(model_t): records model_t and wraps the model it stands for
prepare_model_t(e, model_t, oid) ==
    [est |-> [e EXCEPT !.model_t = model_t],
     wrapper |-> FirstStageWrapperNew(
                     IF model_t = Auto
                     THEN IF e.discrete_treatment
                          THEN LogisticRegressionCV(e.random_state)
                          ELSE WeightedLassoCVWrapper(e.random_state)
                     ELSE model_t,
                     FALSE, e.featurizer, e.linear_first_stages,
                     e.discrete_treatment, oid)]

\* _prepare_final_model(model): records the final model and wraps it
prepare_final_model(e, model, oid) ==
    [est |-> [e EXCEPT !.model_final = model],
     wrapper |-> FinalWrapperNew(model, e.fit_cate_intercept, e.featurizer,
                                 FALSE, oid)]

\* _update_models(): replaces the two first-stage wrappers, then looks up
\* self._prepare_model_final, an attribute the class does not define
update_models(e, n) ==
    LET y == prepare_model_y(e, e.model_y, n + 1)
        e1 == [y.est EXCEPT !.rlearner_model_y = y.wrapper]
        t == prepare_model_t(e1, e1.model_t, n + 2)
        e2 == [t.est EXCEPT !.rlearner_model_t = t.wrapper]
    IN [err |-> "AttributeError", est |-> e2, nalloc |-> n + 2]

\* DML(model_y, model_t, model_final, featurizer, fit_cate_intercept,
\*     linear_first_stages, discrete_treatment, random_state)
DMLNew(model_y, model_t, model_final, featurizer, fit_cate_intercept, linear_first_stages, discrete_treatment, random_state) ==
    LET e0 == [kind |-> "DML",
               random_state |-> random_state,
               discrete_treatment |-> discrete_treatment,
               fit_cate_intercept |-> fit_cate_intercept,
               linear_first_stages |-> linear_first_stages,
               featurizer |-> featurizer,
               model_y |-> model_y, model_t |-> model_t,
               model_final |-> model_final,
               rlearner_model_y |-> Idle, rlearner_model_t |-> Idle,
               rlearner_model_final |-> Idle]
        y == prepare_model_y(e0, model_y, 1)
        t == prepare_model_t(y.est, model_t, 2)
        f == prepare_final_model(t.est, model_final, 3)
    IN [f.est EXCEPT !.rlearner_model_y = y.wrapper,
                     !.rlearner_model_t = t.wrapper,
                     !.rlearner_model_final = f.wrapper]

\* the state a setter call leaves: the estimator, the allocation count and the
\* record of the call
SetterDone(op, value, err, e, n) ==
    /\ est' = e
    /\ nalloc' = n
    /\ ret' = [op |-> op, err |-> err,
               args |-> [value |-> value, nalloc |-> nalloc], value |-> None]
    /\ UNCHANGED <<data, fw, fsw>>

\* est.linear_first_stages = v (the invalidation message after _update_models
\* is not reached)
SetLinearFirstStages(v) ==
    /\ nalloc + 2 <= MaxAlloc
    /\ LET r == update_models([est EXCEPT !.linear_first_stages = v], nalloc)
       IN SetterDone("set.linear_first_stages", v, r.err, r.est, r.nalloc)

\* est.featurizer = f
SetFeaturizer(f) ==
    /\ nalloc + 2 <= MaxAlloc
    /\ LET e1 == [est EXCEPT !.featurizer = f]
       IN IF e1.linear_first_stages
          THEN LET r == update_models(e1, nalloc)
               IN SetterDone("set.featurizer", f, r.err, r.est, r.nalloc)
          ELSE LET r == prepare_final_model(e1, e1.model_final, nalloc + 1)
               IN SetterDone("set.featurizer", f, "",
                             [r.est EXCEPT !.rlearner_model_final = r.wrapper],
                             nalloc + 1)

\* est.fit_cate_intercept = v
SetFitCateIntercept(v) ==
    /\ nalloc + 1 <= MaxAlloc
    /\ LET e1 == [est EXCEPT !.fit_cate_intercept = v]
           r == prepare_final_model(e1, e1.model_final, nalloc + 1)
       IN SetterDone("set.fit_cate_intercept", v, "",
                     [r.est EXCEPT !.rlearner_model_final = r.wrapper],
                     nalloc + 1)

\* est.discrete_treatment = v (the inherited setter stores the value)
SetDiscreteTreatment(v) ==
    /\ nalloc + 2 <= MaxAlloc
    /\ LET r == update_models([est EXCEPT !.discrete_treatment = v], nalloc)
       IN SetterDone("set.discrete_treatment", v, r.err, r.est, r.nalloc)

\* est.model_t = m: the wrapper is built by _prepare_model_y
SetModelT(m) ==
    /\ nalloc + 1 <= MaxAlloc
    /\ LET r == prepare_model_y(est, m, nalloc + 1)
       IN SetterDone("set.model_t", m, "",
                     [r.est EXCEPT !.rlearner_model_t = r.wrapper], nalloc + 1)

\* est.model_y = m
SetModelY(m) ==
    /\ nalloc + 1 <= MaxAlloc
    /\ LET r == prepare_model_y(est, m, nalloc + 1)
       IN SetterDone("set.model_y", m, "",
                     [r.est EXCEPT !.rlearner_model_y = r.wrapper], nalloc + 1)

\* est.random_state = rs (the inherited setter stores the value)
SetRandomState(rs) ==
    /\ nalloc + 2 <= MaxAlloc
    /\ LET r == update_models([est EXCEPT !.random_state = rs], nalloc)
       IN SetterDone("set.random_state", rs, r.err, r.est, r.nalloc)

\* the cross-fitting engine fits the wrappers the estimator holds: the
\* first-stage wrappers on (X, W, target), the final wrapper on the residuals
EngineFit ==
    LET y == FirstFitResult(est.rlearner_model_y, XView(TRUE), None,
                            TargetView(est.rlearner_model_y), None)
        t == FirstFitResult(est.rlearner_model_t, XView(TRUE), None,
                            TargetView(est.rlearner_model_t), None)
        f == FinalFitResult(est.rlearner_model_final, XView(TRUE),
                            IF est.discrete_treatment THEN TView(1) ELSE TView(0),
                            YView(0), None, None, <<0>>)
    IN /\ ~(est.rlearner_model_y.model.fitted /\ est.rlearner_model_t.model.fitted
              /\ est.rlearner_model_final.model.fitted)
       /\ est' = [est EXCEPT !.rlearner_model_y = y.w, !.rlearner_model_t = t.w,
                             !.rlearner_model_final = f.w]
       /\ ret' = [op |-> "engine.fit",
                  err |-> IF y.err # "" THEN y.err ELSE IF t.err # "" THEN t.err
                          ELSE f.err,
                  args |-> [value |-> None, nalloc |-> nalloc], value |-> None]
       /\ UNCHANGED <<data, fw, fsw, nalloc>>

DMLInit ==
    /\ data = [T |-> [i \in 1..NSamples |-> 4], Y |-> [i \in 1..NSamples |-> 6],
               w |-> [i \in 1..NSamples |-> 2], H |-> BinaryOneHot]
    /\ est \in {DMLNew(Auto, Auto, UserFinalModel, "None", TRUE, lfs, d, 0) :
                   lfs \in BOOLEAN, d \in BOOLEAN}
    /\ fw = Idle /\ fsw = Idle /\ nalloc = 3
    /\ ret = NoCall

DMLNext ==
    \/ \E v \in BOOLEAN : SetLinearFirstStages(v)
    \/ \E f \in Featurizers : SetFeaturizer(f)
    \/ \E v \in BOOLEAN : SetFitCateIntercept(v)
    \/ \E v \in BOOLEAN : SetDiscreteTreatment(v)
    \/ \E m \in UserModels \cup {Auto} : SetModelT(m)
    \/ \E m \in UserModels \cup {Auto} : SetModelY(m)
    \/ \E rs \in RandomStates : SetRandomState(rs)
    \/ EngineFit

SpecDML == DMLInit /\ [][DMLNext]_vars

-----------------------------------------------------------------------------
(* The presets: estimators whose final-stage model is fixed *)

StatsModelsLinearRegression == [name |-> "StatsModelsLinearRegression", random_state |-> 0, obj |-> 0]

MultiOutputDebiasedLasso(alpha, max_iter, tol, random_state) ==
    [name |-> "MultiOutputDebiasedLasso", alpha |-> alpha, max_iter |-> max_iter,
     tol |-> tol, random_state |-> random_state, obj |-> 0]

ElasticNetCV(random_state) ==
    [name |-> "ElasticNetCV", random_state |-> random_state, obj |-> 0]

\* the hyperparameters of the forest, in the order of ForestDML.__init__
HyperNames ==
    {"n_estimators", "criterion", "max_depth", "min_samples_split",
     "min_samples_leaf", "min_weight_fraction_leaf", "max_features",
     "max_leaf_nodes", "min_impurity_decrease", "subsample_fr", "honest",
     "n_jobs", "verbose"}

\* the values a hyperparameter is given: the one of construction and another
HyperValues == {1, 2}

DefaultForestParams == [h \in HyperNames |-> 1]

SubsampledHonestForest(params, random_state) ==
    [name |-> "SubsampledHonestForest", params |-> params,
     random_state |-> random_state, obj |-> 0]

\* LinearDML(model_y, model_t, featurizer, fit_cate_intercept,
\*           linear_first_stages, discrete_treatment, random_state)
LinearDMLNew(model_y, model_t, featurizer, fit_cate_intercept, linear_first_stages, discrete_treatment, random_state) ==
    [DMLNew(model_y, model_t, StatsModelsLinearRegression, featurizer,
            fit_cate_intercept, linear_first_stages, discrete_treatment,
            random_state)
        EXCEPT !.kind = "LinearDML"]

\* SparseLinearDML(model_y, model_t, alpha, max_iter, tol, featurizer,
\*                 fit_cate_intercept, linear_first_stages, discrete_treatment,
\*                 random_state)
SparseLinearDMLNew(model_y, model_t, alpha, max_iter, tol, featurizer, fit_cate_intercept, linear_first_stages, discrete_treatment, random_state) ==
    [alpha |-> alpha, max_iter |-> max_iter, tol |-> tol] @@
    [DMLNew(model_y, model_t,
            MultiOutputDebiasedLasso(alpha, max_iter, tol, random_state),
            featurizer, fit_cate_intercept, linear_first_stages,
            discrete_treatment, random_state)
        EXCEPT !.kind = "SparseLinearDML"]

\* KernelDML(model_y, model_t, fit_cate_intercept, dim=KernelDim,
\*           bw=KernelBw, discrete_treatment, random_state): the featurizer is
\* the random-feature map and linear_first_stages keeps the default of DML;
\* the attributes _bw and _dim are not assigned (attrs lists the assigned
\* ones, bw and dim hold their values); rf is the featurizer the estimator
\* holds
KernelDMLNew(model_y, model_t, fit_cate_intercept, discrete_treatment, random_state) ==
    [attrs |-> {}, bw |-> 0, dim |-> 0,
     rf |-> RandomFeaturesNew(KernelDim, KernelBw, IntSeed(0))] @@
    [DMLNew(model_y, model_t, ElasticNetCV(random_state), "Random",
            fit_cate_intercept, FALSE, discrete_treatment, random_state)
        EXCEPT !.kind = "KernelDML"]

\* NonParamDML(model_y, model_t, model_final, featurizer, discrete_treatment,
\*             random_state): first stages never expanded, final stage fitted
\* by the weighting trick without intercept
NonParamDMLNew(model_y, model_t, model_final, featurizer, discrete_treatment, random_state) ==
    [kind |-> "NonParamDML",
     random_state |-> random_state,
     discrete_treatment |-> discrete_treatment,
     fit_cate_intercept |-> FALSE,
     linear_first_stages |-> FALSE,
     featurizer |-> featurizer,
     model_y |-> model_y, model_t |-> model_t,
     model_final |-> model_final,
     rlearner_model_y |-> FirstStageWrapperNew(model_y, TRUE, featurizer, FALSE,
                                               discrete_treatment, 1),
     rlearner_model_t |-> FirstStageWrapperNew(model_t, FALSE, featurizer, FALSE,
                                               discrete_treatment, 2),
     rlearner_model_final |-> FinalWrapperNew(model_final, FALSE, featurizer,
                                              TRUE, 3)]

\* ForestDML(model_y, model_t, discrete_treatment, random_state)
ForestDMLNew(model_y, model_t, params, discrete_treatment, random_state) ==
    ("params" :> params) @@
    [NonParamDMLNew(model_y, model_t, SubsampledHonestForest(params, random_state),
                    "None", discrete_treatment, random_state)
        EXCEPT !.kind = "ForestDML"]

\* a model_final setter that stores and wraps the model as a first construction
\* does
PresetModelFinalSetter_Rewraps(e, model, n) ==
    LET r == prepare_final_model(e, model, n + 1)
    IN [err |-> "", est |-> [r.est EXCEPT !.rlearner_model_final = r.wrapper],
        nalloc |-> n + 1]

\* the model_final setter of LinearDML, SparseLinearDML, KernelDML and
\* ForestDML: raise AttributeError
PresetModelFinalSetter(e, model, n) ==
    [err |-> "AttributeError", est |-> e, nalloc |-> n]

\* est.model_final = m on a preset
SetPresetModelFinal(m) ==
    /\ est.kind \in {"LinearDML", "SparseLinearDML", "KernelDML", "ForestDML"}
    /\ nalloc + 1 <= MaxAlloc
    /\ LET r == PresetModelFinalSetter(est, m, nalloc)
       IN SetterDone("set.model_final", m, r.err, r.est, r.nalloc)

\* est.model_t = m on a NonParamDML
SetNonParamModelT(m) ==
    /\ est.kind \in {"NonParamDML", "ForestDML"}
    /\ nalloc + 1 <= MaxAlloc
    /\ SetterDone("set.model_t", m, "",
                  [est EXCEPT !.model_t = m,
                              !.rlearner_model_t =
                                  FirstStageWrapperNew(m, FALSE, est.featurizer, FALSE,
                                                       est.discrete_treatment,
                                                       nalloc + 1)],
                  nalloc + 1)

\* est.model_y = m on a NonParamDML: the wrapper is built with is_Y False
SetNonParamModelY(m) ==
    /\ est.kind \in {"NonParamDML", "ForestDML"}
    /\ nalloc + 1 <= MaxAlloc
    /\ SetterDone("set.model_y", m, "",
                  [est EXCEPT !.model_y = m,
                              !.rlearner_model_y =
                                  FirstStageWrapperNew(m, FALSE, est.featurizer, FALSE,
                                                       est.discrete_treatment,
                                                       nalloc + 1)],
                  nalloc + 1)

PresetInit ==
    /\ data = [T |-> [i \in 1..NSamples |-> 4], Y |-> [i \in 1..NSamples |-> 6],
               w |-> [i \in 1..NSamples |-> 2], H |-> BinaryOneHot]
    /\ est \in UNION {{LinearDMLNew(Auto, Auto, "None", TRUE, FALSE, d, 0),
                       SparseLinearDMLNew(Auto, Auto, 1, 1, 1, "Poly", TRUE,
                                          FALSE, d, 0),
                       KernelDMLNew(Auto, Auto, TRUE, d, 0),
                       ForestDMLNew(UserFinalModel, UserFinalModel,
                                    DefaultForestParams, d, 0)} :
                      d \in BOOLEAN}
    /\ fw = Idle /\ fsw = Idle /\ nalloc = 3
    /\ ret = NoCall

PresetNext ==
    \/ \E m \in UserModels \cup {UserFinalModel} : SetPresetModelFinal(m)
    \/ \E m \in UserModels : est.kind # "ForestDML" /\ SetModelY(m)
    \/ \E m \in UserModels : SetNonParamModelY(m)
    \/ \E v \in BOOLEAN : est.kind # "ForestDML" /\ SetFitCateIntercept(v)
    \/ EngineFit

SpecPreset == PresetInit /\ [][PresetNext]_vars

-----------------------------------------------------------------------------
(* NonParamDML: the first-stage models *)

\* the engine fits the outcome wrapper the estimator holds on X and the
\* outcome
NonParamFitOutcome ==
    LET r == FirstFitResult(est.rlearner_model_y, XView(TRUE), None, YView(1), None)
    IN /\ est' = [est EXCEPT !.rlearner_model_y = r.w]
       /\ ret' = [op |-> "engine.fit_y", err |-> r.err,
                  args |-> [value |-> None, nalloc |-> nalloc], value |-> None]
       /\ UNCHANGED <<data, fw, fsw, nalloc>>

NonParamInit ==
    /\ data = [T |-> [i \in 1..NSamples |-> 4], Y |-> [i \in 1..NSamples |-> 6],
               w |-> [i \in 1..NSamples |-> 2], H |-> BinaryOneHot]
    /\ est \in {NonParamDMLNew(my, mt, UserFinalModel, f, d, 0) :
                   my \in UserModels, mt \in UserModels, f \in Featurizers,
                   d \in BOOLEAN}
    /\ fw = Idle /\ fsw = Idle /\ nalloc = 3
    /\ ret = NoCall

NonParamNext ==
    \/ \E m \in UserModels : SetNonParamModelY(m)
    \/ \E m \in UserModels : SetNonParamModelT(m)
    \/ NonParamFitOutcome

SpecNonParam == NonParamInit /\ [][NonParamNext]_vars


-----------------------------------------------------------------------------
(* ForestDML: the hyperparameters of the forest *)

\* _set_model_final(): a forest of the current hyperparameters is stored as
\* the final-stage component, without a _FinalWrapper around it
set_model_final(e, n) ==
    [e EXCEPT !.rlearner_model_final =
                 [SubsampledHonestForest(e.params, e.random_state) EXCEPT !.obj = n + 1]]

\* est.<h> = v: the value is stored and the final-stage component rebuilt
ForestSet(h, v) ==
    /\ est.kind = "ForestDML"
    /\ nalloc + 1 <= MaxAlloc
    /\ LET e1 == [est EXCEPT !.params[h] = v]
       IN /\ est' = set_model_final(e1, nalloc)
          /\ nalloc' = nalloc + 1
          /\ ret' = [op |-> "forest.set", err |-> "",
                     args |-> [name |-> h, value |-> v, nalloc |-> nalloc],
                     value |-> None]
          /\ UNCHANGED <<data, fw, fsw>>

\* the error of reading est.<h>: the getters of criterion and max_depth name
\* their parameter s and read self; the getters of min_samples_split,
\* min_samples_leaf, min_weight_fraction_leaf and min_impurity_decrease take
\* a second parameter that a property read does not pass
GetterError(h) ==
    IF h \in {"criterion", "max_depth"} THEN "NameError"
    ELSE IF h \in {"min_samples_split", "min_samples_leaf",
                   "min_weight_fraction_leaf", "min_impurity_decrease"}
    THEN "TypeError"
    ELSE ""

\* est.<h> read
ForestGet(h) ==
    /\ est.kind = "ForestDML"
    /\ ret' = [op |-> "forest.get", err |-> GetterError(h),
               args |-> [name |-> h, value |-> None, nalloc |-> nalloc],
               value |-> IF GetterError(h) = "" THEN Scalar(est.params[h]) ELSE None]
    /\ UNCHANGED <<data, fw, fsw, est, nalloc>>

ForestInit ==
    /\ data = [T |-> [i \in 1..NSamples |-> 4], Y |-> [i \in 1..NSamples |-> 6],
               w |-> [i \in 1..NSamples |-> 2], H |-> BinaryOneHot]
    /\ est = ForestDMLNew(UserFinalModel, UserFinalModel, DefaultForestParams,
                          FALSE, 0)
    /\ fw = Idle /\ fsw = Idle /\ nalloc = 3
    /\ ret = NoCall

ForestNext ==
    \/ \E h \in HyperNames, v \in HyperValues : ForestSet(h, v)
    \/ \E h \in HyperNames : ForestGet(h)

SpecForest == ForestInit /\ [][ForestNext]_vars

-----------------------------------------------------------------------------
(* SparseLinearDML and KernelDML: the exposed hyperparameters *)

\* the debiased lasso of the estimator's current alpha, max_iter, tol and
\* random_state
CurrentLasso(e) == MultiOutputDebiasedLasso(e.alpha, e.max_iter, e.tol, e.random_state)

\* what a hyperparameter setter call leaves
HyperDone(op, value, err, e, n) ==
    /\ est' = e
    /\ nalloc' = n
    /\ ret' = [op |-> op, err |-> err,
               args |-> [value |-> value, nalloc |-> nalloc], value |-> None]
    /\ UNCHANGED <<data, fw, fsw>>

\* est.alpha = v: the value and a new lasso are stored
SetAlpha(v) ==
    /\ est.kind = "SparseLinearDML"
    /\ LET e1 == [est EXCEPT !.alpha = v]
       IN HyperDone("set.alpha", v, "", [e1 EXCEPT !.model_final = CurrentLasso(e1)],
                    nalloc)

\* est.tol = v: the value and a new lasso are stored
SetTol(v) ==
    /\ est.kind = "SparseLinearDML"
    /\ LET e1 == [est EXCEPT !.tol = v]
       IN HyperDone("set.tol", v, "", [e1 EXCEPT !.model_final = CurrentLasso(e1)],
                    nalloc)

\* the max_iter setter: its first statement, self.max_iter = max_iter, is a
\* call of the setter itself; the interpreter ends the recursion at its limit
RECURSIVE max_iter_setter(_, _, _)
max_iter_setter(e, v, depth) ==
    IF depth >= RecursionLimit
    THEN [err |-> "RecursionError", est |-> e]
    ELSE LET r == max_iter_setter(e, v, depth + 1)
         IN IF r.err # ""
            THEN r
            ELSE [err |-> "", est |-> [r.est EXCEPT !.model_final = CurrentLasso(r.est)]]

\* est.max_iter = v
SetMaxIter(v) ==
    /\ est.kind = "SparseLinearDML"
    /\ LET r == max_iter_setter(est, v, 1)
       IN HyperDone("set.max_iter", v, r.err, r.est, nalloc)

\* est.max_iter read
GetMaxIter ==
    /\ est.kind = "SparseLinearDML"
    /\ ret' = [op |-> "get.max_iter", err |-> "",
               args |-> [value |-> None, nalloc |-> nalloc],
               value |-> Scalar(est.max_iter)]
    /\ UNCHANGED <<data, fw, fsw, est, nalloc>>

\* the random_state setter of DML, reached through super(): the value is
\* stored and _update_models called
dml_random_state_setter(e, rs, n) == update_models([e EXCEPT !.random_state = rs], n)

\* est.random_state = rs on SparseLinearDML or KernelDML: the setter of DML,
\* then a new final model of the new random_state is stored
SetPresetRandomState(rs) ==
    /\ est.kind \in {"SparseLinearDML", "KernelDML"}
    /\ nalloc + 2 <= MaxAlloc
    /\ LET r == dml_random_state_setter(est, rs, nalloc)
       IN IF r.err # ""
          THEN HyperDone("set.random_state", rs, r.err, r.est, r.nalloc)
          ELSE HyperDone("set.random_state", rs, "",
                         [r.est EXCEPT !.model_final =
                                          IF est.kind = "KernelDML"
                                          THEN ElasticNetCV(rs)
                                          ELSE CurrentLasso(r.est)],
                         r.nalloc)

\* the featurizer setter of DML, reached through super(), given a
\* random-feature map: the copy is stored and the models rebuilt
dml_featurizer_setter(e, rf, n) ==
    LET e1 == [e EXCEPT !.rf = rf]
    IN IF e1.linear_first_stages
       THEN update_models(e1, n)
       ELSE LET r == prepare_final_model(e1, e1.model_final, n + 1)
            IN [err |-> "",
                est |-> [r.est EXCEPT !.rlearner_model_final =
                                         [r.wrapper EXCEPT !.original_featurizer = rf]],
                nalloc |-> n + 1]

\* est.bw = v / est.dim = v on KernelDML: the value is stored, then a
\* _RandomFeatures(self._dim, self._bw, self.random_state) is built, which
\* reads both attributes
KernelSet(a, v) ==
    /\ est.kind = "KernelDML"
    /\ nalloc + 2 <= MaxAlloc
    /\ LET e1 == IF a = "bw"
                 THEN [est EXCEPT !.bw = v, !.attrs = @ \cup {"_bw"}]
                 ELSE [est EXCEPT !.dim = v, !.attrs = @ \cup {"_dim"}]
       IN IF {"_bw", "_dim"} \subseteq e1.attrs
          THEN LET r == dml_featurizer_setter(
                            e1, RandomFeaturesNew(e1.dim, e1.bw, IntSeed(e1.random_state)),
                            nalloc)
               IN HyperDone("set." \o a, v, r.err, r.est, r.nalloc)
          ELSE HyperDone("set." \o a, v, "AttributeError", e1, nalloc)

\* est.bw / est.dim read
KernelGet(a) ==
    /\ est.kind = "KernelDML"
    /\ LET has == ("_" \o a) \in est.attrs
       IN ret' = [op |-> "get." \o a, err |-> IF has THEN "" ELSE "AttributeError",
                  args |-> [value |-> None, nalloc |-> nalloc],
                  value |-> IF ~has THEN None
                            ELSE IF a = "bw" THEN Scalar(est.bw) ELSE Scalar(est.dim)]
    /\ UNCHANGED <<data, fw, fsw, est, nalloc>>

HyperInit ==
    /\ data = [T |-> [i \in 1..NSamples |-> 4], Y |-> [i \in 1..NSamples |-> 6],
               w |-> [i \in 1..NSamples |-> 2], H |-> BinaryOneHot]
    /\ est \in {SparseLinearDMLNew(Auto, Auto, 1, 1, 1, "None", TRUE, FALSE, FALSE, 0),
                KernelDMLNew(Auto, Auto, TRUE, FALSE, 0)}
    /\ fw = Idle /\ fsw = Idle /\ nalloc = 3
    /\ ret = NoCall

HyperNext ==
    \/ \E v \in HyperValues : SetAlpha(v)
    \/ \E v \in HyperValues : SetTol(v)
    \/ \E v \in HyperValues : SetMaxIter(v)
    \/ GetMaxIter
    \/ \E rs \in RandomStates : SetPresetRandomState(rs)
    \/ \E a \in {"bw", "dim"}, v \in HyperValues : KernelSet(a, v)
    \/ \E a \in {"bw", "dim"} : KernelGet(a)
    \/ \E v \in BOOLEAN : est.kind = "SparseLinearDML" /\ SetFitCateIntercept(v)

SpecHyper == HyperInit /\ [][HyperNext]_vars




-----------------------------------------------------------------------------
(* Properties of the configuration setters *)

\* the last call is a configuration change that affects the first stage
FirstStageChange ==
    \/ ret.op \in {"set.linear_first_stages", "set.discrete_treatment",
                   "set.random_state"}
    \/ ret.op = "set.featurizer" /\ est.linear_first_stages

\* the three wrappers the estimator holds were constructed by the last call
ThreeNewWrappers ==
    /\ est.rlearner_model_y.id > ret.args.nalloc
    /\ est.rlearner_model_t.id > ret.args.nalloc
    /\ est.rlearner_model_final.id > ret.args.nalloc

\* the wrappers the estimator holds are those its configuration builds
WrappersReflectConfiguration ==
    LET y == prepare_model_y(est, est.model_y, est.rlearner_model_y.id).wrapper
        t == prepare_model_t(est, est.model_t, est.rlearner_model_t.id).wrapper
        f == prepare_final_model(est, est.model_final,
                                 est.rlearner_model_final.id).wrapper
    IN /\ est.rlearner_model_y = y
       /\ est.rlearner_model_t = t
       /\ est.rlearner_model_final = f

\* C4, as stated: every configuration change that affects the first stage
\* completes without error and leaves the estimator holding three newly
\* constructed wrappers that reflect the new configuration.
C4_Original ==
    FirstStageChange
        => ret.err = "" /\ ThreeNewWrappers /\ WrappersReflectConfiguration

\* a first-stage change that raised, leaving two new first-stage wrappers next
\* to the final wrapper built before the call
C4_Witness ==
    /\ FirstStageChange /\ ret.err = "AttributeError"
    /\ est.rlearner_model_y.id > ret.args.nalloc
    /\ est.rlearner_model_t.id > ret.args.nalloc
    /\ est.rlearner_model_final.id <= ret.args.nalloc

-----------------------------------------------------------------------------
(* Properties of the first-stage wrapper's fit, predict and score *)

\* the wrapper expands its input: the outcome model with linear_first_stages
Expands(w) == w.is_Y /\ w.linear_first_stages

\* C14, as stated: predict and score leave the wrapper's model and featurizer
\* as they were.
C14_Original ==
    [][(ret'.op \in {"first.predict", "first.score"})
          => fsw'.model = fsw.model /\ fsw'.featurizer = fsw.featurizer]_vars

\* a score that left the featurizer fitted on the scored block, next to a model
\* that was fit on a block of another split
C14_Witness ==
    /\ ret.op = "first.score" /\ ret.err = ""
    /\ Expands(fsw) /\ fsw.model.fitted
    /\ fsw.featurizer.fit_X = ret.args.X
    /\ NRows(fsw.model.X) # NRows(ret.args.X)

\* the flags and identity of the wrapper are those it had before the step
SameFlags ==
    /\ fsw'.id = fsw.id /\ fsw'.is_Y = fsw.is_Y
    /\ fsw'.linear_first_stages = fsw.linear_first_stages
    /\ fsw'.discrete_treatment = fsw.discrete_treatment

\* C15, as stated: fit leaves the wrapper's featurizer and flags as they were,
\* for every configuration.
C15_Original ==
    [][(ret'.op = "first.fit")
          => fsw'.featurizer = fsw.featurizer /\ SameFlags]_vars

\* C15, amended: fit leaves the wrapper's flags as they were and, when it
\* fails, the whole wrapper; a successful fit fits the model and leaves the
\* featurizer as it was, except on the outcome model with linear_first_stages
\* set, a featurizer and X present, where the featurizer is refit on X.
C15_FitFrame ==
    [][(ret'.op = "first.fit")
          => /\ SameFlags
             /\ ret'.err # "" => fsw' = fsw
             /\ ret'.err = "" => fsw'.model.fitted
             /\ IF ret'.err = "" /\ Expands(fsw) /\ fsw.featurizer.kind # "None"
                      /\ ret'.args.X # None
                THEN /\ fsw'.featurizer.kind = fsw.featurizer.kind
                     /\ fsw'.featurizer.fit_X = ret'.args.X
                     /\ fsw'.featurizer.fitted = Len(ret'.args.X.v[1])
                ELSE fsw'.featurizer = fsw.featurizer]_vars

C15_Witness ==
    /\ ret.op = "first.fit" /\ ret.err = "" /\ ret.args.was_fitted
    /\ Expands(fsw) /\ fsw.featurizer.kind # "None"
    /\ fsw.featurizer.fit_X = ret.args.X
    /\ NRows(ret.args.X) < NSamples

\* the wrappers the estimator holds, and the models supplied to it
HeldWrappers ==
    {est.rlearner_model_y, est.rlearner_model_t, est.rlearner_model_final}

SuppliedModels == {est.model_y, est.model_t, est.model_final}

\* C17: every wrapper the estimator holds owns a model instance of its own: it
\* is not the instance of another wrapper and is not a supplied model object;
\* a wrapper built by the last configuration change holds an unfitted model;
\* and the supplied models are never fitted.
C17_ExclusiveOwnership ==
    /\ \A a \in HeldWrappers, b \in HeldWrappers :
          a.id # b.id => a.model.id # b.model.id
    /\ \A a \in HeldWrappers, m \in SuppliedModels : a.model.id # m.obj
    /\ \A a \in HeldWrappers : a.model.proto.obj <= 0 /\ a.model.id > 0
    /\ ret.op \notin {"none", "engine.fit"}
          => \A a \in HeldWrappers :
                a.id > ret.args.nalloc => ~a.model.fitted /\ a.model.X = None

\* a configuration change made after the engine fitted the wrappers: the new
\* wrapper is unfitted next to fitted ones
C17_Witness ==
    /\ ret.op = "set.model_y" /\ ret.err = ""
    /\ est.rlearner_model_y.id > ret.args.nalloc
    /\ ~est.rlearner_model_y.model.fitted
    /\ est.rlearner_model_t.model.fitted
    /\ est.rlearner_model_final.model.fitted
    /\ est.model_y \in UserModels

PresetKinds == {"LinearDML", "SparseLinearDML", "KernelDML", "ForestDML"}

\* C18: every assignment of model_final on a preset fails with AttributeError
\* and leaves the estimator (its final model and its three wrappers) and the
\* count of wrappers built as they were.
C18_PresetFinalModelImmutable ==
    [][(est.kind \in PresetKinds /\ ret'.op = "set.model_final")
          => /\ ret'.err = "AttributeError"
             /\ est' = est
             /\ nalloc' = nalloc]_vars

\* an assignment of model_final on a kernel preset whose wrappers were fitted
\* and whose intercept flag was changed before
C18_Witness ==
    /\ ret.op = "set.model_final" /\ ret.err = "AttributeError"
    /\ est.kind = "KernelDML"
    /\ est.rlearner_model_final.model.fitted
    /\ est.rlearner_model_final.id > 3
    /\ est.model_final = ElasticNetCV(0)

\* the block the model of the last call was handed (None when the call handed
\* it none)
BlockOfCall ==
    IF ret.op = "first.fit" /\ ret.err = "" THEN fsw.model.X
    ELSE IF ret.op = "first.predict" THEN ret.args.block
    ELSE IF ret.op = "first.score" /\ ret.err = "" /\ ret.value # None
    THEN ret.value.block
    ELSE None

\* the rows of the ones column of a call without X and W
RowsOfCall ==
    IF ret.op = "first.predict" THEN 1 ELSE NRows(ret.args.Target)

\* featurizer(X) of the wrapper: X itself without a featurizer
FeaturesOf(w, X) == IF w.featurizer.kind = "None" THEN X ELSE PolyTransform(X)

Width(A) == Len(A.v[1])

\* C19: the block handed to the model is W when X is absent, a ones column
\* (one row per target row at fit and score, one row at predict) when both are
\* absent; with X it is cross_product([X, W], [1, featurizer(X)]), of
\* (d_x + d_w) * (1 + |featurizer(X)|) columns, for an outcome model with
\* linear first stages, and the concatenation of X and W for every other
\* wrapper, the treatment model always.
C19_InputBlock ==
    BlockOfCall # None =>
        LET X == ret.args.X
            W == ret.args.W
            B == BlockOfCall
        IN IF X = None
           THEN IF W = None
                THEN B = Mat([i \in 1..RowsOfCall |-> <<1>>])
                ELSE B = W
           ELSE LET XW == IF W = None THEN X ELSE hstack(X, W)
                    d_w == IF W = None THEN 0 ELSE Width(W)
                IN /\ NRows(B) = NRows(X)
                   /\ IF fsw.is_Y /\ fsw.linear_first_stages
                      THEN /\ B = cross_product(
                                      XW, hstack(OnesCol(NRows(X)), FeaturesOf(fsw, X)))
                           /\ Width(B) = (Width(X) + d_w) * (1 + Width(FeaturesOf(fsw, X)))
                      ELSE /\ B = XW
                           /\ Width(B) = Width(X) + d_w

\* a predict of an outcome model with linear first stages and a featurizer on
\* X and W: the block has (1 + 1) * (1 + 2) columns
C19_Witness ==
    /\ ret.op = "first.predict" /\ ret.err = ""
    /\ fsw.is_Y /\ fsw.linear_first_stages /\ fsw.featurizer.kind = "Poly"
    /\ ret.args.X # None /\ ret.args.W # None
    /\ Width(ret.args.block) = 6

\* the input block of a wrapper for X, W and n target rows
InputBlock(w, X, W, n) ==
    IF X = None
    THEN IF W = None THEN Mat([i \in 1..n |-> <<1>>]) ELSE W
    ELSE LET XW == IF W = None THEN X ELSE hstack(X, W)
         IN IF w.is_Y /\ w.linear_first_stages
            THEN cross_product(XW, hstack(OnesCol(NRows(X)), FeaturesOf(w, X)))
            ELSE XW

\* the target the model is scored against: the labels of a one-hot Target
\* for the model of a discrete treatment
ScoredTarget(w, Target) ==
    IF ~w.is_Y /\ w.discrete_treatment
    THEN Vec([i \in 1..NRows(Target) |->
                IF \A k \in 1..Width(Target) : Target.v[i][k] = 0 THEN 0
                ELSE CHOOSE k \in 1..Width(Target) : Target.v[i][k] = 1])
    ELSE Target

\* C20: score on a model without the score capability returns None and raises
\* nothing, whatever it is given and whether or not the model was fitted; on a
\* model with the capability a score that returns is the model's score on the
\* wrapper's input block, the target (the labels of a one-hot Target for the
\* model of a discrete treatment) and the sample weight.
C20_Score ==
    ret.op = "first.score" =>
        IF fsw.model.proto = "no_score"
        THEN ret.err = "" /\ ret.value = None
        ELSE /\ ret.err = "" <=> ret.value # None
             /\ ret.err = ""
                   => ret.value =
                         [model |-> fsw.model.id,
                          block |-> InputBlock(fsw, ret.args.X, ret.args.W,
                                               NRows(ret.args.Target)),
                          y |-> ScoredTarget(fsw, ret.args.Target),
                          sample_weight |-> ret.args.sw]

\* a score of a fitted model of a discrete treatment: the one-hot block
\* reaches the model as a vector of labels
C20_Witness ==
    /\ ret.op = "first.score" /\ ret.err = "" /\ ret.value # None
    /\ ~fsw.is_Y /\ fsw.discrete_treatment
    /\ ret.args.Target.nd = 2 /\ ret.value.y.nd = 1
    /\ \E i \in 1..NRows(ret.args.Target) : ret.value.y.v[i] = 1
    /\ ret.args.sw # None

-----------------------------------------------------------------------------
(* Properties of the ForestDML hyperparameters *)

\* whether a final-stage component is a _FinalWrapper
IsFinalWrapper(c) == "use_weight_trick" \in DOMAIN c

\* C21: after every sequence of hyperparameter assignments the final-stage
\* component of a ForestDML is a _FinalWrapper in weighting-trick mode around
\* a forest of the latest hyperparameters.
C21_Original ==
    est.kind = "ForestDML" =>
        /\ IsFinalWrapper(est.rlearner_model_final)
        /\ est.rlearner_model_final.use_weight_trick
        /\ est.rlearner_model_final.model.proto.params = est.params

\* after est.n_estimators = 2 the final-stage component is the forest itself
C21_Witness ==
    /\ ret.op = "forest.set" /\ ret.args.name = "n_estimators" /\ ret.args.value = 2
    /\ ~IsFinalWrapper(est.rlearner_model_final)
    /\ est.rlearner_model_final.name = "SubsampledHonestForest"
    /\ est.rlearner_model_final.params = est.params

\* C30: reading a hyperparameter of a ForestDML returns, without error, the
\* value of construction or of the most recent assignment.
C30_Original ==
    ret.op = "forest.get" =>
        /\ ret.err = ""
        /\ ret.value = Scalar(est.params[ret.args.name])

\* criterion read after est.criterion = 2: NameError
C30_Witness ==
    /\ ret.op = "forest.get" /\ ret.args.name = "criterion"
    /\ est.params["criterion"] = 2
    /\ ret.err = "NameError"

-----------------------------------------------------------------------------
(* Properties of the exposed hyperparameters of SparseLinearDML and KernelDML *)

\* C22: an assignment of max_iter on SparseLinearDML completes; afterwards
\* max_iter reads back the assigned value and the stored lasso has it.
C22_Original ==
    ret.op = "set.max_iter" =>
        /\ ret.err = ""
        /\ est.max_iter = ret.args.value
        /\ est.model_final.max_iter = ret.args.value

\* est.max_iter = 2 ended by the recursion limit: max_iter is still 1
C22_Witness ==
    /\ ret.op = "set.max_iter" /\ ret.args.value = 2
    /\ ret.err = "RecursionError"
    /\ est.max_iter = 1 /\ est.model_final.max_iter = 1

\* the final model of the estimator's current hyperparameters
CurrentFinal(e) ==
    IF e.kind = "KernelDML" THEN ElasticNetCV(e.random_state) ELSE CurrentLasso(e)

\* C27: after an assignment of alpha, tol or random_state the final wrapper
\* the estimator holds owns a model of the new value.
C27_Original ==
    ret.op \in {"set.alpha", "set.tol", "set.random_state"} =>
        /\ ret.err = ""
        /\ est.rlearner_model_final.model.proto = CurrentFinal(est)

\* est.alpha = 2: the stored lasso has alpha 2, the wrapper's model alpha 1
C27_Witness ==
    /\ ret.op = "set.alpha" /\ ret.args.value = 2 /\ ret.err = ""
    /\ est.alpha = 2 /\ est.model_final.alpha = 2
    /\ est.rlearner_model_final.model.proto.alpha = 1
    /\ est.rlearner_model_final.id = 3

\* the bw and dim in force: the one assigned, else the one of construction
BwInForce == IF "_bw" \in est.attrs THEN est.bw ELSE KernelBw
DimInForce == IF "_dim" \in est.attrs THEN est.dim ELSE KernelDim

\* C29: an assignment of bw or dim on KernelDML completes without error and
\* leaves a new final wrapper whose featurizer is the random-feature map of
\* the new value and of the other parameter in force; bw and dim read back the
\* values in force.
C29_Original ==
    /\ ret.op \in {"set.bw", "set.dim"} =>
          /\ ret.err = ""
          /\ est.rlearner_model_final.id > ret.args.nalloc
          /\ est.rlearner_model_final.original_featurizer.kind = "Random"
          /\ est.rlearner_model_final.original_featurizer.dim = DimInForce
          /\ est.rlearner_model_final.original_featurizer.bw = BwInForce
    /\ ret.op = "get.bw" => ret.err = "" /\ ret.value = Scalar(BwInForce)
    /\ ret.op = "get.dim" => ret.err = "" /\ ret.value = Scalar(DimInForce)

\* est.bw = 2 right after construction: AttributeError, the final wrapper is
\* the one of construction
C29_Witness ==
    /\ ret.op = "set.bw" /\ ret.args.value = 2 /\ ret.args.nalloc = 3
    /\ ret.err = "AttributeError"
    /\ est.attrs = {"_bw"}
    /\ est.rlearner_model_final.id = 3
    /\ est.rlearner_model_final.original_featurizer.bw = KernelBw

-----------------------------------------------------------------------------
(* Properties of the first-stage model setters *)

\* C23: an assignment of model_t on a DML leaves a treatment wrapper
\* (is_Y false) around a copy of the new model, model_t reads back the new
\* model, and model_y and the outcome wrapper are as before.
C23_Original ==
    [][ret'.op = "set.model_t"
          => /\ ~est'.rlearner_model_t.is_Y
             /\ est'.rlearner_model_t.id > nalloc
             /\ est'.model_t = ret'.args.value
             /\ est'.model_y = est.model_y
             /\ est'.rlearner_model_y = est.rlearner_model_y]_vars

\* est.model_t = user_a on a DML of automatic models: the new treatment
\* wrapper is flagged as the outcome model, model_y reads user_a and model_t
\* still reads 'auto'
C23_Witness ==
    /\ est.kind = "DML"
    /\ ret.op = "set.model_t" /\ ret.err = ""
    /\ ret.args.value \in UserModels
    /\ est.rlearner_model_t.id > ret.args.nalloc
    /\ est.rlearner_model_t.is_Y
    /\ est.model_y = ret.args.value
    /\ est.model_t = Auto

\* C24: in every state of a NonParamDML the outcome wrapper is flagged as the
\* outcome model and the treatment wrapper as the treatment model, so that a
\* fit of the outcome wrapper never validates its target as a one-hot block.
C24_Original ==
    est.kind = "NonParamDML" =>
        /\ est.rlearner_model_y.is_Y
        /\ ~est.rlearner_model_t.is_Y
        /\ ret.op = "engine.fit_y" => ret.err = ""

\* after est.model_y = m on a NonParamDML of a discrete treatment the outcome
\* wrapper is flagged as the treatment model and its fit on the outcome fails
\* the fold-coverage validation
C24_Witness ==
    /\ est.kind = "NonParamDML" /\ est.discrete_treatment
    /\ est.rlearner_model_y.id > 3
    /\ ~est.rlearner_model_y.is_Y
    /\ ret.op = "engine.fit_y" /\ ret.err = "InvalidFoldSplit"

-----------------------------------------------------------------------------
(* Properties of failed fits, sample variances and the weighting-trick intercept *)

FitFailures == {"InfeasibleConfiguration", "UnsupportedTreatmentDimension"}

\* C25: a fit that fails with InfeasibleConfiguration or
\* UnsupportedTreatmentDimension leaves the recorded dimensions, the intercept
\* and the fitted model as they were, and every predict returns what it
\* returned before the call.
C25_Original ==
    [][(ret'.op = "final.fit" /\ ret'.err \in FitFailures)
          => /\ fw'.d_t = fw.d_t /\ fw'.d_y = fw.d_y
             /\ fw'.intercept = fw.intercept
             /\ fw'.model = fw.model
             /\ \A hasX \in BOOLEAN :
                   FinalPredictResult(fw', XView(hasX)) = FinalPredictResult(fw, XView(hasX))]_vars

\* a predict after a failed fit on a wrapper fitted before: the recorded
\* outcome dimension is that of the failed call, not that of the target the
\* model was fitted on
C25_Witness ==
    /\ ret.op = "final.predict"
    /\ ~ret.args.last.ok
    /\ ~fw.use_weight_trick
    /\ fw.model.fitted
    /\ fw.d_y # ShapeTail(fw.model.y)

\* C26: a successful fit given sample variances hands them to the regressor,
\* unchanged in standard mode and divided by the squared clipped residual in
\* weighting-trick mode, with or without sample weights.
C26_Original ==
    (ret.op = "final.fit" /\ ret.err = "" /\ ret.args.sv # None)
        => fw.model.sample_var =
              IF fw.use_weight_trick
              THEN TrickTargetVar(ret.args.sv, Ravel(ret.args.T))
              ELSE ret.args.sv

\* a standard-mode fit given sample variances and no sample weights: the
\* regressor is fitted without variances
C26_Witness ==
    /\ ret.op = "final.fit" /\ ret.err = ""
    /\ ~fw.use_weight_trick
    /\ ret.args.sv # None /\ ret.args.sw = None
    /\ fw.model.fitted /\ fw.model.sample_var = None

\* the regressor's raw prediction on the design predict probes
RawPrediction(X) ==
    reshape_treatmentwise_effects(ModelPredict(fw.model, PredictDesign(fw, X).F),
                                  fw.d_t, fw.d_y)

\* C28: after every successful weighting-trick fit the recorded intercept is
\* None, whatever the fitted model predicts at an all-zero row, and a predict
\* that returns returns the regressor's raw predictions.
C28_NoInterceptInTrick ==
    fw.use_weight_trick =>
        /\ (ret.op = "final.fit" /\ ret.err = "") => fw.intercept = None
        /\ (ret.op = "final.predict" /\ ret.err = "")
              => fw.intercept = None /\ ret.value = RawPrediction(ret.args.X)

\* a predict after a weighting-trick fit of a regressor that predicts a
\* non-zero value at an all-zero row
C28_Witness ==
    /\ fw.use_weight_trick
    /\ ret.op = "final.predict" /\ ret.err = ""
    /\ CountNonzero(ModelPredict(fw.model, ZerosLikeFirstRow(fw.model.X))) > 0
    /\ fw.intercept = None
    /\ ret.value = RawPrediction(ret.args.X)

=============================================================================
